---- MODULE Spec2Model ----
(***************************************************************************)
(* Model of the Nillion SecretVault action provider of ModerIA             *)
(* (action-providers/nillion-secretvault): the field-encryption marker     *)
(* prepareDataForEncryption, the record builders of the create actions,    *)
(* the lazily initialised SecretVault connection and the action surface.   *)
(*                                                                         *)
(* The specifications of the module:                                       *)
(*   SpecMarker   applies prepareDataForEncryption to records and field    *)
(*                lists drawn from bounded sets;                           *)
(*   Spec         runs the provider's actions one after the other against  *)
(*                a nondeterministic external SecretVault service;         *)
(*   SpecTools    reaches the actions through their tools, which parse the *)
(*                agent's input with the action's schema first;            *)
(*   SpecRace     runs actions of the provider in flight together,         *)
(*                interleaved at their awaits;                             *)
(*   SpecStartup  starts the agent's process (chatbot.ts) in every         *)
(*                environment;                                             *)
(*   SpecMode     runs the process's mode selection on typed lines;        *)
(*   SpecSetup    runs the schema setup script (createSchemas.ts).         *)
(***************************************************************************)
EXTENDS Integers, Sequences, FiniteSets, TLC

VARIABLES
    \* ---- the provider (NillionSecretVaultActionProvider) and its world
    initialized,         \* this.initialized
    secretVaultWrapper,  \* this.secretVaultWrapper (Null or a handle)
    nodes,               \* this.nodes
    credentials,         \* this.credentials
    SCHEMA_IDS,          \* the module-level SCHEMA_IDS object
    storage,             \* records held by the external service
    uuidCount,           \* number of identifiers uuidv4() has produced
    last,                \* the action whose response the caller is about to
                         \* print: its name, arguments, response, whether it
                         \* called the wrapper's init() and got through, and
                         \* what it handed to writeToNodes and readFromNodes
    request,             \* the input the agent gave the action's tool, before
                         \* the action's schema parsed it (NoRequest when the
                         \* method was called with typed arguments)
    \* ---- the marker run on its own (SpecMarker)
    mHeap,               \* the object heap
    mInput,              \* the record the first call was given (a reference)
    mHeap0,              \* the heap before the first call
    mArg,                \* the record the latest call was given
    mArgHeap,            \* the heap on entry to the latest call
    mFields,             \* encryptedFields of the latest call
    mFirstFields,        \* encryptedFields of the first call
    mRet,                \* what the latest call returned
    mThrew,              \* the latest call raised a TypeError
    mCalls,              \* number of calls made
    \* ---- the agent's process (SpecStartup, SpecMode) and the schema setup
    \* ---- script's process (SpecSetup)
    env,                 \* process.env: the value of each required variable
    pc,                  \* where the process is
    exitCode,            \* <<status>> once process.exit(status) was called
    printed,             \* the lines written by console.log / console.error
    agentStarted,        \* initializeAgent() has been entered
    rlOpen,              \* chooseMode's readline interface is open
    typed,               \* the lines the user has yet to type
    mode,                \* what chooseMode returned last
    created,             \* the schema identifier the setup script found for
                         \* each kind it has created
    \* ---- actions of the provider interleaved at their awaits (SpecRace)
    wrappers,            \* every SecretVaultWrapper object constructed: its
                         \* nodes, its credentials and the state of its init()
    tasks                \* the actions in flight: for each the action, where
                         \* it is, the handle whose init() it awaits and the
                         \* handle it called the service on

providerVars == <<initialized, secretVaultWrapper, nodes, credentials, SCHEMA_IDS,
                  storage, uuidCount, last, request>>
markerVars == <<mHeap, mInput, mHeap0, mArg, mArgHeap, mFields, mFirstFields,
                mRet, mThrew, mCalls>>
processVars == <<env, pc, exitCode, printed, agentStarted, rlOpen, typed, mode, created>>
raceVars == <<wrappers, tasks>>
scriptVars == <<processVars, raceVars>>
vars == <<providerVars, markerVars, scriptVars>>

(***************************************************************************)
(* Bounds of the model.                                                    *)
(***************************************************************************)
MaxFields == 2      \* longest encryptedFields list tried on the marker
MaxCalls == 2       \* successive applications of the marker
MaxUuid == 2        \* identifiers uuidv4() may hand out in one run

(***************************************************************************)
(* JavaScript values.  A value on the heap is a primitive or a reference   *)
(* to an object; an object is a function from its own keys to values.      *)
(***************************************************************************)
Str(x) == [t |-> "string", s |-> x, n |-> 0]
Num(k) == [t |-> "number", s |-> "", n |-> k]
Ref(a) == [t |-> "object", s |-> "", n |-> a]
Fn(name) == [t |-> "function", s |-> name, n |-> 0]
Undefined == [t |-> "undefined", s |-> "", n |-> 0]

\* ToBoolean: "", 0 and undefined are falsy; objects and functions are truthy.
Truthy(v) ==
    CASE v.t = "string" -> v.s # ""
      [] v.t = "number" -> v.n # 0
      [] v.t = "undefined" -> FALSE
      [] OTHER -> TRUE

\* Names every object literal inherits from Object.prototype.
ObjectPrototypeKeys == {"constructor", "toString"}

\* The property read v[k]: own keys first, then the prototype chain.
\* (Own properties of strings - length, indices - are not modelled; no key
\* of the model is one of them.)
GetProp(h, v, k) ==
    IF v.t = "object" /\ k \in DOMAIN h[v.n] THEN h[v.n][k]
    ELSE IF v.t # "undefined" /\ k \in ObjectPrototypeKeys THEN Fn(k)
    ELSE Undefined

\* The assignment o[k] = w on an object.
SetProp(h, a, k, w) == [h EXCEPT ![a] = (k :> w) @@ @]

\* A deep value: what an object looks like when it is serialised.
DStr(x) == [t |-> "string", s |-> x, n |-> 0, o |-> <<>>]
DNum(k) == [t |-> "number", s |-> "", n |-> k, o |-> <<>>]
DObj(f) == [t |-> "object", s |-> "", n |-> 0, o |-> f]
DWrap(d) == DObj("%allot" :> d)

RECURSIVE Deep(_, _)
Deep(h, v) ==
    IF v.t = "object"
    THEN DObj([k \in DOMAIN h[v.n] |-> Deep(h, h[v.n][k])])
    ELSE [t |-> v.t, s |-> v.s, n |-> v.n, o |-> <<>>]

\* Allocate a deep value on the heap; children first, the object last.
RECURSIVE Load(_, _)
RECURSIVE LoadKeys(_, _, _, _)
LoadKeys(h, d, keys, acc) ==
    IF keys = {}
    THEN [heap |-> Append(h, acc), val |-> Ref(Len(h) + 1)]
    ELSE LET k == CHOOSE x \in keys : TRUE
             r == Load(h, d.o[k])
         IN LoadKeys(r.heap, d, keys \ {k}, (k :> r.val) @@ acc)
Load(h, d) ==
    IF d.t = "object"
    THEN LoadKeys(h, d, DOMAIN d.o, <<>>)
    ELSE [heap |-> h, val |-> [t |-> d.t, s |-> d.s, n |-> d.n]]

(***************************************************************************)
(* prepareDataForEncryption(data, encryptedFields).                        *)
(* A field path is held as its '.'-separated segments, so                  *)
(* field.includes('.') is Len(field) > 1 and [parent, child] =             *)
(* field.split('.') are the first two segments.                            *)
(***************************************************************************)
\* One round of the for loop, from the i-th field on.
RECURSIVE MarkFields(_, _, _, _)
MarkFields(h, result, encryptedFields, i) ==
    IF i > Len(encryptedFields)
    THEN [heap |-> h, ret |-> result, threw |-> FALSE]
    ELSE
      LET field == encryptedFields[i] IN
      IF Len(field) > 1
      THEN LET parent == field[1]
               child == field[2]
               pv == GetProp(h, result, parent)
               cv == GetProp(h, pv, child)
               h1 == Append(h, "%allot" :> cv)
           IN IF Truthy(pv) /\ Truthy(cv)
              THEN IF pv.t = "object"
                   THEN MarkFields(SetProp(h1, pv.n, child, Ref(Len(h1))),
                                   result, encryptedFields, i + 1)
                   \* strict mode: assigning a property of a primitive throws
                   ELSE [heap |-> h, ret |-> Undefined, threw |-> TRUE]
              ELSE MarkFields(h, result, encryptedFields, i + 1)
      ELSE LET fv == GetProp(h, result, field[1])
               h1 == Append(h, "%allot" :> fv)
           IN IF Truthy(fv)
              THEN MarkFields(SetProp(h1, result.n, field[1], Ref(Len(h1))),
                              result, encryptedFields, i + 1)
              ELSE MarkFields(h, result, encryptedFields, i + 1)

prepareDataForEncryption(h, data, encryptedFields) ==
    LET h1 == Append(h, h[data.n])          \* const result = { ...data }
    IN MarkFields(h1, Ref(Len(h1)), encryptedFields, 1)

(***************************************************************************)
(* The provider: NillionSecretVaultActionProvider and the external service *)
(***************************************************************************)
Kinds == {"SERVICE_LISTING", "BOOKING", "FEEDBACK"}

\* this.secretVaultWrapper: null, or a SecretVaultWrapper built from a node
\* list and credentials whose init() has completed (ready) or not.
NoWrapper == [set |-> FALSE, nodes |-> "", credentials |-> "", ready |-> FALSE]
NewWrapper(n, c, ok) == [set |-> TRUE, nodes |-> n, credentials |-> c, ready |-> ok]

NoAction == [action |-> "none", args |-> DObj(<<>>), response |-> <<>>,
             connected |-> FALSE, attempted |-> FALSE, wrote |-> <<>>, read |-> <<>>]

\* No tool was used: the method was called with typed arguments.
NoRequest == [tool |-> "none", input |-> DObj(<<>>), accepted |-> FALSE]

\* Reading a property of a deep value; undefined when it is not there.
DUndefined == [t |-> "undefined", s |-> "", n |-> 0, o |-> <<>>]
DGet(d, k) == IF d.t = "object" /\ k \in DOMAIN d.o THEN d.o[k] ELSE DUndefined
DTruthy(d) == Truthy([t |-> d.t, s |-> d.s, n |-> d.n])

\* uuidv4(): the i-th identifier handed out.
Uuid(i) == "uuid-" \o ToString(i)

\* Messages of the error classes (errors.ts).
InitializationError(message) == "Failed to initialize SecretVault: " \o message
MissingSchemaError(schemaType) ==
    "Schema ID for " \o schemaType \o " is missing. Please create the schema first."

\* What the external service's client raises when a call fails.
ServiceFailure == "service unavailable"

\* catch (error): a NillionSecretVaultError answers `Error: ${error.message}`,
\* anything else answers with the action's own prefix.
CatchNillion(message) == <<"Error: ", message>>
\* A version whose catch clause throws the error again: nothing is returned.
CatchOtherRethrows(prefix, message) == <<>>
\* A version that answers every error the way it answers the named ones.
CatchOtherAsNamed(prefix, message) == <<"Error: ", message>>
CatchOther(prefix, message) == <<prefix, message>>

\* A version that returns as soon as a wrapper is held, ready or not.
initSecretVaultAnyHandle(init, wrapper, n, c, ok) ==
    IF wrapper.set
    THEN [initialized |-> init, wrapper |-> wrapper, error |-> "", called |-> FALSE]
    ELSE IF ok
    THEN [initialized |-> TRUE, wrapper |-> NewWrapper(n, c, TRUE), error |-> "",
          called |-> TRUE]
    ELSE [initialized |-> init, wrapper |-> NewWrapper(n, c, FALSE),
          error |-> InitializationError(ServiceFailure), called |-> TRUE]

\* A version without the early return: every call connects again.
initSecretVaultEveryTime(init, wrapper, n, c, ok) ==
    IF ok
    THEN [initialized |-> TRUE, wrapper |-> NewWrapper(n, c, TRUE), error |-> "",
          called |-> TRUE]
    ELSE [initialized |-> init, wrapper |-> NewWrapper(n, c, FALSE),
          error |-> InitializationError(ServiceFailure), called |-> TRUE]

\* initSecretVault() run with the given fields; ok is whether the wrapper's
\* init() succeeds.  error is the InitializationError's message, or "";
\* called is whether a wrapper was built and its init() called.
initSecretVault(init, wrapper, n, c, ok) ==
    IF init /\ wrapper.set
    THEN [initialized |-> init, wrapper |-> wrapper, error |-> "", called |-> FALSE]
    ELSE IF ok
    THEN [initialized |-> TRUE, wrapper |-> NewWrapper(n, c, TRUE), error |-> "",
          called |-> TRUE]
    ELSE [initialized |-> init, wrapper |-> NewWrapper(n, c, FALSE),
          error |-> InitializationError(ServiceFailure), called |-> TRUE]

\* A version that only rejects an identifier that was never set.
checkSchemaIdDefined(schemaType) == SCHEMA_IDS[schemaType].t # "undefined"

\* checkSchemaId(schemaType) passes when the stored identifier is truthy.
checkSchemaId(schemaType) == Truthy(SCHEMA_IDS[schemaType])

\* The first schema kind of the list whose check throws, or "" if all pass.
RECURSIVE FirstMissing(_, _)
FirstMissing(kinds, i) ==
    IF i > Len(kinds) THEN ""
    ELSE IF checkSchemaId(kinds[i]) THEN FirstMissing(kinds, i + 1)
    ELSE kinds[i]

(***************************************************************************)
(* The record builders of the three create actions.                        *)
(***************************************************************************)
\* A version that spreads args last: { status, _id, ...args }.
ListingLiteralArgsWin(argsObj, id) ==
    argsObj @@ ("status" :> Str("available")) @@ ("_id" :> Str(id))
\* { ...args, status: "available", _id: uuidv4() }
ListingLiteral(argsObj, id) ==
    ("status" :> Str("available")) @@ ("_id" :> Str(id)) @@ argsObj

\* { ...args, _id, booking_time, payment_status, service_status, notes }
BookingLiteral(argsObj, id) ==
    ("_id" :> Str(id)) @@ ("booking_time" :> Str("<now>"))
      @@ ("payment_status" :> Str("pending"))
      @@ ("service_status" :> Str("scheduled"))
      @@ ("notes" :> Str("")) @@ argsObj

\* { ...args, _id: uuidv4(), resolution_status: "pending" }
FeedbackLiteral(argsObj, id) ==
    ("_id" :> Str(id)) @@ ("resolution_status" :> Str("pending")) @@ argsObj

ListingEncryptedFields == << <<"provider_name">>, <<"provider_id">>, <<"contact_info">> >>
BookingEncryptedFields(args) ==
    << <<"customer_id">>, <<"customer_name">> >>
      \o (IF DTruthy(DGet(args, "meeting_link")) THEN << <<"meeting_link">> >> ELSE <<>>)
FeedbackEncryptedFields(args) ==
    IF DTruthy(DGet(args, "agent_notes")) THEN << <<"agent_notes">> >> ELSE <<>>

\* serviceData / bookingData / feedbackData: the literal, then the marker.
BuildListing(args, id) ==
    LET l == Load(<<>>, args)
        h1 == Append(l.heap, ListingLiteral(l.heap[l.val.n], id))
        p == prepareDataForEncryption(h1, Ref(Len(h1)), ListingEncryptedFields)
    IN Deep(p.heap, p.ret)
BuildBooking(args, id) ==
    LET l == Load(<<>>, args)
        h1 == Append(l.heap, BookingLiteral(l.heap[l.val.n], id))
        p == prepareDataForEncryption(h1, Ref(Len(h1)), BookingEncryptedFields(args))
    IN Deep(p.heap, p.ret)
BuildFeedback(args, id) ==
    LET l == Load(<<>>, args)
        h1 == Append(l.heap, FeedbackLiteral(l.heap[l.val.n], id))
        p == prepareDataForEncryption(h1, Ref(Len(h1)), FeedbackEncryptedFields(args))
    IN Deep(p.heap, p.ret)

(***************************************************************************)
(* Inputs of the actions (after the framework validated them).             *)
(***************************************************************************)
ListingBase ==
    ("provider_id" :> DStr("prov-1"))
      @@ ("service_type" :> DStr("tutoring"))
      @@ ("service_details" :> DObj(("title" :> DStr("Spanish")) @@
                                    ("description" :> DStr("Conversation class")) @@
                                    ("duration_minutes" :> DNum(60))))
      @@ ("availability" :> DObj(("date" :> DStr("2025-04-01")) @@
                                 ("start_time" :> DStr("10:00")) @@
                                 ("end_time" :> DStr("11:00")) @@
                                 ("timezone" :> DStr("America/Mexico_City"))))
      @@ ("price" :> DObj(("amount" :> DNum(20)) @@ ("currency" :> DStr("USD"))))
      @@ ("contact_info" :> DStr("ana@example.org"))

\* provider_name is any string, the empty one included (z.string()); a
\* caller may hand over an object that also carries status and _id (the
\* same for the other two create actions).
ListingArgs ==
    { DObj(("provider_name" :> DStr(pn)) @@ extra @@ ListingBase) :
        pn \in {"Ana", ""},
        extra \in {<<>>, ("status" :> DStr("booked")) @@ ("_id" :> DStr(""))} }

BookingArgs ==
    { DObj(("service_id" :> DStr("uuid-1")) @@ ("customer_id" :> DStr("cust-1"))
           @@ ("customer_name" :> DStr("Bob")) @@ ml @@ extra) :
        ml \in {<<>>, "meeting_link" :> DStr(""), "meeting_link" :> DStr("https://x")},
        extra \in {<<>>, ("service_status" :> DStr("completed"))
                           @@ ("payment_status" :> DStr("paid")) @@ ("_id" :> DStr(""))} }

FeedbackArgs ==
    { DObj(("booking_id" :> DStr("uuid-2")) @@ ("provider_rating" :> DNum(4)) @@ an @@ extra) :
        an \in {<<>>, "agent_notes" :> DStr(""), "agent_notes" :> DStr("went well")},
        extra \in {<<>>, ("resolution_status" :> DStr("resolved")) @@ ("_id" :> DStr(""))} }

RecordIds == {"uuid-1", "no-such-id"}
ServiceStatuses == {"scheduled", "in_progress", "completed", "cancelled", "no_show"}
ResolutionStatuses == {"pending", "resolved", "disputed", "refunded"}

UpdateBookingStatusArgs ==
    { DObj(("booking_id" :> DStr(id)) @@ ("service_status" :> DStr(st))) :
        id \in RecordIds, st \in ServiceStatuses }
ResolveFeedbackArgs ==
    { DObj(("feedback_id" :> DStr(id)) @@ ("resolution_status" :> DStr(st))) :
        id \in RecordIds, st \in ResolutionStatuses }
GetBookingDetailsArgs == { DObj("booking_id" :> DStr(id)) : id \in RecordIds }
GetFeedbackArgs == { DObj("feedback_id" :> DStr(id)) : id \in RecordIds }

QueryArgs ==
    { DObj(<<>>),
      DObj("service_type" :> DStr("tutoring")),
      DObj("price_max" :> DNum(0)),
      DObj(("date" :> DStr("2025-04-01")) @@ ("price_max" :> DNum(30))) }

ConfigureArgs ==
    { DObj(("nodes" :> DStr("nodes-" \o x)) @@ ("credentials" :> DStr("credentials-" \o x))) :
        x \in {"A", "B"} }

CreateSchemaArgs ==
    { DObj(("schemaType" :> DStr(k)) @@ ti) :
        k \in Kinds, ti \in {<<>>, "title" :> DStr("Marketplace")} }

(***************************************************************************)
(* The schemas of the actions (zod).  schema.parse(input) either fails or  *)
(* gives the declared keys of the input: every object schema is .strip(),  *)
(* so keys it does not declare are dropped.  A parse is given as           *)
(* [ok, args].                                                             *)
(***************************************************************************)
IsString(d) == d.t = "string"
IsNumber(d) == d.t = "number"
IsObject(d) == d.t = "object"

\* A declared key: z.X() must be there, z.X().optional() may be left out.
Has(input, k) == k \in DOMAIN input.o
Opt(input, k) == k \notin DOMAIN input.o

\* The function f on the given keys only.
RECURSIVE Keep(_, _)
Keep(f, keys) ==
    IF keys = {} THEN <<>>
    ELSE LET k == CHOOSE x \in keys : TRUE
         IN (k :> f[k]) @@ Keep(f, keys \ {k})

\* .strip(): the declared keys that the input holds.
Strip(input, declared) == DObj(Keep(input.o, DOMAIN input.o \cap declared))

Parsed(ok, args) == [ok |-> ok, args |-> IF ok THEN args ELSE DUndefined]

\* The node list and the credentials are held as one token each; a token
\* stands for an array of {url, did} / an object {secretKey, orgDid} that
\* the schema accepts.
ConfigureNodesSchema(input) ==
    Parsed(/\ IsObject(input)
           /\ Has(input, "nodes") /\ IsString(input.o["nodes"])
           /\ Has(input, "credentials") /\ IsString(input.o["credentials"]),
           Strip(input, {"nodes", "credentials"}))

CreateSchemaSchema(input) ==
    Parsed(/\ IsObject(input)
           /\ Has(input, "schemaType") /\ IsString(input.o["schemaType"])
           /\ input.o["schemaType"].s \in {"SERVICE_LISTING", "BOOKING", "FEEDBACK"}
           /\ (Opt(input, "title") \/ IsString(input.o["title"])),
           Strip(input, {"schemaType", "title"}))

ServiceDetailsKeys == {"title", "description", "duration_minutes"}
AvailabilityKeys == {"date", "start_time", "end_time", "timezone"}
PriceKeys == {"amount", "currency"}
ListingKeys == {"provider_name", "provider_id", "service_type", "service_details",
                "availability", "price", "contact_info"}

\* A version without .min(15) on duration_minutes.
CreateServiceListingSchemaNoMin(input) ==
    Parsed(/\ IsObject(input)
           /\ \A k \in ListingKeys : Has(input, k)
           /\ \A k \in {"service_details", "availability", "price"} : IsObject(input.o[k]),
           DObj(Keep(input.o, ListingKeys)))

CreateServiceListingSchema(input) ==
    LET sd == input.o["service_details"]
        av == input.o["availability"]
        pr == input.o["price"]
    IN Parsed(/\ IsObject(input)
              /\ \A k \in ListingKeys : Has(input, k)
              /\ \A k \in {"provider_name", "provider_id", "service_type", "contact_info"} :
                     IsString(input.o[k])
              /\ IsObject(sd)
              /\ \A k \in {"title", "description"} : Has(sd, k) /\ IsString(sd.o[k])
              /\ Has(sd, "duration_minutes") /\ IsNumber(sd.o["duration_minutes"])
              /\ sd.o["duration_minutes"].n >= 15
              /\ IsObject(av)
              /\ \A k \in AvailabilityKeys : Has(av, k) /\ IsString(av.o[k])
              /\ IsObject(pr)
              /\ Has(pr, "amount") /\ IsNumber(pr.o["amount"]) /\ pr.o["amount"].n > 0
              /\ Has(pr, "currency") /\ IsString(pr.o["currency"]),
              DObj(("service_details" :> Strip(sd, ServiceDetailsKeys))
                   @@ ("availability" :> Strip(av, AvailabilityKeys))
                   @@ ("price" :> Strip(pr, PriceKeys))
                   @@ Keep(input.o, ListingKeys)))

QueryServiceListingsSchema(input) ==
    Parsed(/\ IsObject(input)
           /\ (Opt(input, "service_type") \/ IsString(input.o["service_type"]))
           /\ (Opt(input, "date") \/ IsString(input.o["date"]))
           /\ (Opt(input, "price_max") \/ IsNumber(input.o["price_max"])),
           Strip(input, {"service_type", "date", "price_max"}))

\* A version that is .strict(): an undeclared key fails the parse.
CreateBookingSchemaStrict(input) ==
    Parsed(/\ IsObject(input)
           /\ DOMAIN input.o \subseteq {"service_id", "customer_id", "customer_name", "meeting_link"}
           /\ \A k \in {"service_id", "customer_id", "customer_name"} :
                  Has(input, k) /\ IsString(input.o[k])
           /\ (Opt(input, "meeting_link") \/ IsString(input.o["meeting_link"])),
           input)

CreateBookingSchema(input) ==
    Parsed(/\ IsObject(input)
           /\ \A k \in {"service_id", "customer_id", "customer_name"} :
                  Has(input, k) /\ IsString(input.o[k])
           /\ (Opt(input, "meeting_link") \/ IsString(input.o["meeting_link"])),
           Strip(input, {"service_id", "customer_id", "customer_name", "meeting_link"}))

UpdateBookingStatusSchema(input) ==
    Parsed(/\ IsObject(input)
           /\ Has(input, "booking_id") /\ IsString(input.o["booking_id"])
           /\ Has(input, "service_status") /\ IsString(input.o["service_status"])
           /\ input.o["service_status"].s \in
                  {"scheduled", "in_progress", "completed", "cancelled", "no_show"}
           /\ \/ Opt(input, "payment_status")
              \/ /\ IsString(input.o["payment_status"])
                 /\ input.o["payment_status"].s \in {"pending", "paid", "refunded", "disputed"}
           /\ (Opt(input, "notes") \/ IsString(input.o["notes"]))
           /\ (Opt(input, "meeting_link") \/ IsString(input.o["meeting_link"])),
           Strip(input, {"booking_id", "service_status", "payment_status", "notes",
                         "meeting_link"}))

GetBookingDetailsSchema(input) ==
    Parsed(IsObject(input) /\ Has(input, "booking_id") /\ IsString(input.o["booking_id"]),
           Strip(input, {"booking_id"}))

RatingOk(input, k) ==
    Opt(input, k) \/ (IsNumber(input.o[k]) /\ input.o[k].n >= 1 /\ input.o[k].n <= 5)

CreateFeedbackSchema(input) ==
    Parsed(/\ IsObject(input)
           /\ Has(input, "booking_id") /\ IsString(input.o["booking_id"])
           /\ RatingOk(input, "provider_rating")
           /\ RatingOk(input, "customer_rating")
           /\ \A k \in {"provider_feedback", "customer_feedback", "agent_notes"} :
                  Opt(input, k) \/ IsString(input.o[k]),
           Strip(input, {"booking_id", "provider_rating", "customer_rating",
                         "provider_feedback", "customer_feedback", "agent_notes"}))

ResolveFeedbackSchema(input) ==
    Parsed(/\ IsObject(input)
           /\ Has(input, "feedback_id") /\ IsString(input.o["feedback_id"])
           /\ Has(input, "resolution_status") /\ IsString(input.o["resolution_status"])
           /\ input.o["resolution_status"].s \in {"pending", "resolved", "disputed", "refunded"}
           /\ (Opt(input, "resolution_notes") \/ IsString(input.o["resolution_notes"])),
           Strip(input, {"feedback_id", "resolution_status", "resolution_notes"}))

GetFeedbackSchema(input) ==
    Parsed(IsObject(input) /\ Has(input, "feedback_id") /\ IsString(input.o["feedback_id"]),
           Strip(input, {"feedback_id"}))

\* What the agent may hand to a tool: for each action a request that holds
\* a key its schema does not declare, and requests the schema does not
\* accept (for a listing, a duration_minutes below the minimum).
Undeclared == "referral_code" :> DStr("FRIEND")

WithDuration(minutes) ==
    DObj(("provider_name" :> DStr("Ana"))
         @@ ("service_details" :> DObj(("title" :> DStr("Spanish")) @@
                                       ("description" :> DStr("Conversation class")) @@
                                       ("duration_minutes" :> DNum(minutes))))
         @@ ListingBase)

ListingRequests ==
    { DObj(Undeclared @@ WithDuration(60).o), WithDuration(10), WithDuration(14),
      WithDuration(15) }
QueryRequests ==
    { DObj(Undeclared @@ ("service_type" :> DStr("tutoring"))),
      DObj("price_max" :> DStr("cheap")) }
BookingRequests ==
    { DObj(Undeclared @@ ("service_id" :> DStr("uuid-1")) @@ ("customer_id" :> DStr("cust-1"))
           @@ ("customer_name" :> DStr("Bob"))),
      DObj(("service_id" :> DStr("uuid-1")) @@ ("customer_name" :> DStr("Bob"))),
      DObj(Undeclared @@ ("service_id" :> DStr("uuid-1")) @@ ("customer_name" :> DStr("Bob"))) }
UpdateBookingStatusRequests ==
    { DObj(Undeclared @@ ("booking_id" :> DStr("uuid-1")) @@ ("service_status" :> DStr("completed"))),
      DObj(("booking_id" :> DStr("uuid-1")) @@ ("service_status" :> DStr("done"))) }
GetBookingDetailsRequests ==
    { DObj(Undeclared @@ ("booking_id" :> DStr("uuid-1"))), DObj(<<>>) }
FeedbackRequests ==
    { DObj(Undeclared @@ ("booking_id" :> DStr("uuid-2")) @@ ("provider_rating" :> DNum(4))),
      DObj(("booking_id" :> DStr("uuid-2")) @@ ("provider_rating" :> DNum(6))) }
ResolveFeedbackRequests ==
    { DObj(Undeclared @@ ("feedback_id" :> DStr("uuid-1")) @@ ("resolution_status" :> DStr("resolved"))),
      DObj(("feedback_id" :> DStr("uuid-1")) @@ ("resolution_status" :> DStr("closed"))) }
GetFeedbackRequests ==
    { DObj(Undeclared @@ ("feedback_id" :> DStr("uuid-1"))), DObj("feedback_id" :> DNum(7)) }
ConfigureRequests ==
    { DObj(Undeclared @@ ("nodes" :> DStr("nodes-A")) @@ ("credentials" :> DStr("credentials-A"))),
      DObj("nodes" :> DStr("nodes-A")) }
CreateSchemaRequests ==
    { DObj(Undeclared @@ ("schemaType" :> DStr("BOOKING"))),
      DObj("schemaType" :> DStr("INVOICE")) }

(***************************************************************************)
(* JSON.stringify(value, null, 2) of a flat object given as its            *)
(* <<key, rendered value>> pairs in insertion order.                       *)
(***************************************************************************)
Quote(x) == "\"" \o x \o "\""

RECURSIVE JSONMembers(_, _)
JSONMembers(pairs, i) ==
    IF i > Len(pairs) THEN ""
    ELSE "  " \o Quote(pairs[i][1]) \o ": " \o pairs[i][2]
         \o (IF i < Len(pairs) THEN ",\n" ELSE "\n") \o JSONMembers(pairs, i + 1)

JSONStringify(pairs) == "{\n" \o JSONMembers(pairs, 1) \o "}"

(***************************************************************************)
(* The external service: readFromNodes(filters).                           *)
(***************************************************************************)
Matches(r, filters) ==
    \A k \in DOMAIN filters.o :
        CASE k = "availability.date" ->
                 DGet(DGet(r, "availability"), "date") = filters.o[k]
          [] k = "price.amount" ->
                 /\ DGet(DGet(r, "price"), "amount").t = "number"
                 /\ DGet(DGet(r, "price"), "amount").n <= filters.o[k].o["$lte"].n
          [] OTHER -> DGet(r, k) = filters.o[k]

\* The matching records of a store, in the order they were created.
RECURSIVE ReadFrom(_, _, _)
ReadFrom(store, filters, i) ==
    IF i > uuidCount THEN <<>>
    ELSE LET hit == { r \in store : DGet(r, "_id") = DStr(Uuid(i)) /\ Matches(r, filters) }
         IN (IF hit = {} THEN <<>> ELSE <<CHOOSE r \in hit : TRUE>>)
            \o ReadFrom(store, filters, i + 1)

ReadFromNodes(filters, i) == ReadFrom(storage, filters, i)

(***************************************************************************)
(* The bodies of the actions: what runs inside try { } once                *)
(* initSecretVault() and checkSchemaId() have passed.  Each gives the      *)
(* service's storage afterwards, the identifiers used, the response, and   *)
(* what was handed to writeToNodes and readFromNodes.                      *)
(***************************************************************************)
createServiceListingBody(args, writeOk) ==
    LET serviceData == BuildListing(args, Uuid(uuidCount + 1)) IN
    [storage |-> IF writeOk THEN storage \cup {serviceData} ELSE storage,
     uuids |-> uuidCount + 1,
     response |-> IF writeOk
                  THEN <<"Service listing created successfully\nListing ID: ",
                         DGet(serviceData, "_id").s>>
                  ELSE CatchOther("Error creating service listing: ", ServiceFailure),
     wrote |-> <<serviceData>>, read |-> <<>>]

QueryFilters(args) ==
    DObj(("status" :> DStr("available"))
         @@ (IF DTruthy(DGet(args, "service_type"))
             THEN "service_type" :> DGet(args, "service_type") ELSE <<>>)
         @@ (IF DTruthy(DGet(args, "date"))
             THEN "availability.date" :> DGet(args, "date") ELSE <<>>)
         @@ (IF DTruthy(DGet(args, "price_max"))
             THEN "price.amount" :> DObj("$lte" :> DGet(args, "price_max")) ELSE <<>>))

\* A version that shows who offers the service.
FormatListingWithProvider(listing) ==
    JSONStringify(<<
        <<"id", Quote(listing.o["_id"].s)>>,
        <<"title", Quote(listing.o["service_details"].o["title"].s)>>,
        <<"provider", Quote(IF DGet(listing, "provider_name").t = "object"
                            THEN DGet(listing, "provider_name").o["%allot"].s
                            ELSE DGet(listing, "provider_name").s)>> >>)

FormatListing(listing) ==
    JSONStringify(<<
        <<"id", Quote(listing.o["_id"].s)>>,
        <<"title", Quote(listing.o["service_details"].o["title"].s)>>,
        <<"description", Quote(listing.o["service_details"].o["description"].s)>>,
        <<"service_type", Quote(listing.o["service_type"].s)>>,
        <<"duration_minutes", ToString(listing.o["service_details"].o["duration_minutes"].n)>>,
        <<"date", Quote(listing.o["availability"].o["date"].s)>>,
        <<"time", Quote(listing.o["availability"].o["start_time"].s \o " - "
                        \o listing.o["availability"].o["end_time"].s)>>,
        <<"timezone", Quote(listing.o["availability"].o["timezone"].s)>>,
        <<"price", Quote(ToString(listing.o["price"].o["amount"].n) \o " "
                         \o listing.o["price"].o["currency"].s)>> >>)

RECURSIVE FormatResults(_, _)
FormatResults(results, i) ==
    IF i > Len(results) THEN ""
    ELSE FormatListing(results[i]) \o (IF i < Len(results) THEN ",\n" ELSE "\n")
         \o FormatResults(results, i + 1)

\* The answer for the records readFromNodes gave.
QueryResponse(results) ==
    IF Len(results) = 0
    THEN <<"No service listings found matching your criteria">>
    ELSE <<"Found ", ToString(Len(results)), " service listings:\n",
           "[\n" \o FormatResults(results, 1) \o "]">>

queryServiceListingsBody(args, readOk) ==
    LET filters == QueryFilters(args)
        results == ReadFromNodes(filters, 1)
    IN [storage |-> storage, uuids |-> uuidCount,
        response |-> IF ~readOk
                     THEN CatchOther("Error querying service listings: ", ServiceFailure)
                     ELSE QueryResponse(results),
        wrote |-> <<>>, read |-> <<filters>>]

\* A version that looks for an existing booking of the same customer for the
\* same service first, and answers with it.
createBookingBodyChecksExisting(args, writeOk) ==
    LET bookingData == BuildBooking(args, Uuid(uuidCount + 1))
        existing == { r \in storage : /\ DGet(r, "service_id") = DGet(bookingData, "service_id")
                                      /\ DGet(r, "customer_id") = DGet(bookingData, "customer_id") }
    IN IF existing # {}
       THEN [storage |-> storage, uuids |-> uuidCount,
             response |-> <<"Service booked successfully\nBooking ID: ",
                            DGet(CHOOSE r \in existing : TRUE, "_id").s>>,
             wrote |-> <<>>, read |-> <<>>]
       ELSE [storage |-> IF writeOk THEN storage \cup {bookingData} ELSE storage,
             uuids |-> uuidCount + 1,
             response |-> IF writeOk
                          THEN <<"Service booked successfully\nBooking ID: ",
                                 DGet(bookingData, "_id").s>>
                          ELSE CatchOther("Error creating booking: ", ServiceFailure),
             wrote |-> <<bookingData>>, read |-> <<>>]

\* A version that marks the listing it books: the stored listing whose _id
\* is the service_id gets status 'booked'.
createBookingBodyMarksListing(args, writeOk) ==
    LET bookingData == BuildBooking(args, Uuid(uuidCount + 1))
        booked == { r \in storage : /\ "status" \in DOMAIN r.o
                                    /\ DGet(r, "_id") = DGet(args, "service_id") }
        marked == { DObj(("status" :> DStr("booked")) @@ r.o) : r \in booked }
    IN [storage |-> IF writeOk THEN ((storage \ booked) \cup marked) \cup {bookingData}
                    ELSE storage,
        uuids |-> uuidCount + 1,
        response |-> IF writeOk
                     THEN <<"Service booked successfully\nBooking ID: ",
                            DGet(bookingData, "_id").s>>
                     ELSE CatchOther("Error creating booking: ", ServiceFailure),
        wrote |-> <<bookingData>>, read |-> <<>>]

createBookingBody(args, writeOk) ==
    LET bookingData == BuildBooking(args, Uuid(uuidCount + 1)) IN
    [storage |-> IF writeOk THEN storage \cup {bookingData} ELSE storage,
     uuids |-> uuidCount + 1,
     response |-> IF writeOk
                  THEN <<"Service booked successfully\nBooking ID: ",
                         DGet(bookingData, "_id").s>>
                  ELSE CatchOther("Error creating booking: ", ServiceFailure),
     wrote |-> <<bookingData>>, read |-> <<>>]

\* A version that does what the comments describe: find the booking, update
\* its status and write it back.
updateBookingStatusPersisting(args) ==
    LET found == { r \in storage : DGet(r, "_id") = DGet(args, "booking_id") }
        updated == { DObj(("service_status" :> DGet(args, "service_status")) @@ r.o) :
                       r \in found }
    IN [storage |-> (storage \ found) \cup updated, uuids |-> uuidCount,
        response |-> <<"Booking status updated to: ", DGet(args, "service_status").s>>,
        wrote |-> IF updated = {} THEN <<>> ELSE <<CHOOSE r \in updated : TRUE>>,
        read |-> <<>>]

updateBookingStatusBody(args) ==
    [storage |-> storage, uuids |-> uuidCount,
     response |-> <<"Booking status updated to: ", DGet(args, "service_status").s>>,
     wrote |-> <<>>, read |-> <<>>]

\* mockBooking without its _id.
MockBookingFields ==
    << <<"service_id", Quote("service-123")>>,
       <<"customer_name", Quote("John Doe")>>,
       <<"booking_time", Quote("2023-05-15T18:00:00Z")>>,
       <<"service_status", Quote("scheduled")>>,
       <<"payment_status", Quote("pending")>>,
       <<"meeting_link", Quote("https://meet.jitsi.si/secure-meeting-123")>> >>

\* A version whose example carries an identifier of its own.
getBookingDetailsFixedId(args) ==
    [storage |-> storage, uuids |-> uuidCount,
     response |-> <<"Booking details:\n",
                    JSONStringify(<< <<"_id", Quote("booking-123")>> >> \o MockBookingFields)>>,
     wrote |-> <<>>, read |-> <<>>]

getBookingDetailsBody(args) ==
    [storage |-> storage, uuids |-> uuidCount,
     response |-> <<"Booking details:\n",
                    JSONStringify(<< <<"_id", Quote(DGet(args, "booking_id").s)>> >>
                                  \o MockBookingFields)>>,
     wrote |-> <<>>, read |-> <<>>]

createFeedbackBody(args, writeOk) ==
    LET feedbackData == BuildFeedback(args, Uuid(uuidCount + 1)) IN
    [storage |-> IF writeOk THEN storage \cup {feedbackData} ELSE storage,
     uuids |-> uuidCount + 1,
     response |-> IF writeOk
                  THEN <<"Feedback created successfully\nFeedback ID: ",
                         DGet(feedbackData, "_id").s>>
                  ELSE CatchOther("Error creating feedback: ", ServiceFailure),
     wrote |-> <<feedbackData>>, read |-> <<>>]

\* A version that does what the comments describe: find the feedback, update
\* its resolution status and write it back.
resolveFeedbackPersisting(args) ==
    LET found == { r \in storage : "resolution_status" \in DOMAIN r.o }
        updated == { DObj(("resolution_status" :> DGet(args, "resolution_status")) @@ r.o) :
                       r \in found }
    IN [storage |-> (storage \ found) \cup updated, uuids |-> uuidCount,
        response |-> <<"Feedback resolved with status: ", DGet(args, "resolution_status").s>>,
        wrote |-> IF updated = {} THEN <<>> ELSE <<CHOOSE r \in updated : TRUE>>,
        read |-> <<>>]

resolveFeedbackBody(args) ==
    [storage |-> storage, uuids |-> uuidCount,
     response |-> <<"Feedback resolved with status: ", DGet(args, "resolution_status").s>>,
     wrote |-> <<>>, read |-> <<>>]

getFeedbackBody(args) ==
    [storage |-> storage, uuids |-> uuidCount,
     response |-> <<"Feedback details:\n",
                    JSONStringify(<<
                        <<"_id", Quote(DGet(args, "feedback_id").s)>>,
                        <<"booking_id", Quote("booking-123")>>,
                        <<"provider_rating", "4">>,
                        <<"customer_rating", "5">>,
                        <<"provider_feedback", Quote("Great student, was on time and prepared!")>>,
                        <<"customer_feedback", Quote("Excellent teacher, very clear explanations")>>,
                        <<"resolution_status", Quote("resolved")>>,
                        <<"agent_notes", Quote("Both parties were satisfied with the service")>> >>)>>,
     wrote |-> <<>>, read |-> <<>>]

(***************************************************************************)
(* The actions.  One action runs to completion before the next begins: an  *)
(* action starts only when the caller has taken the previous response.     *)
(* A vault-backed action runs initSecretVault(), then the                  *)
(* checkSchemaId() calls in order, then its body; the catch clause turns   *)
(* whatever was thrown into the response.                                  *)
(***************************************************************************)
Idle == last.action = "none"

\* A version that runs the checkSchemaId() calls before initSecretVault().
VaultActionChecksSchemaFirst(name, args, initOk, kinds, body) ==
    LET missing == FirstMissing(kinds, 1)
        conn == IF missing # ""
                THEN [initialized |-> initialized, wrapper |-> secretVaultWrapper,
                      error |-> "", called |-> FALSE]
                ELSE initSecretVault(initialized, secretVaultWrapper, nodes, credentials, initOk)
        thrown == IF missing # "" THEN MissingSchemaError(missing) ELSE conn.error
    IN /\ Idle
       /\ initialized' = conn.initialized
       /\ secretVaultWrapper' = conn.wrapper
       /\ storage' = IF thrown # "" THEN storage ELSE body.storage
       /\ uuidCount' = IF thrown # "" THEN uuidCount ELSE body.uuids
       /\ last' = [action |-> name, args |-> args,
                   response |-> IF thrown # "" THEN CatchNillion(thrown) ELSE body.response,
                   connected |-> conn.error = "", attempted |-> conn.called,
                   wrote |-> IF thrown # "" THEN <<>> ELSE body.wrote,
                   read |-> IF thrown # "" THEN <<>> ELSE body.read]
       /\ UNCHANGED <<nodes, credentials, SCHEMA_IDS, markerVars, scriptVars>>

VaultAction(name, args, initOk, kinds, body) ==
    LET conn == initSecretVault(initialized, secretVaultWrapper, nodes, credentials, initOk)
        missing == FirstMissing(kinds, 1)
        thrown == IF conn.error # "" THEN conn.error
                  ELSE IF missing # "" THEN MissingSchemaError(missing) ELSE ""
    IN /\ Idle
       /\ initialized' = conn.initialized
       /\ secretVaultWrapper' = conn.wrapper
       /\ storage' = IF thrown # "" THEN storage ELSE body.storage
       /\ uuidCount' = IF thrown # "" THEN uuidCount ELSE body.uuids
       /\ last' = [action |-> name, args |-> args,
                   response |-> IF thrown # "" THEN CatchNillion(thrown) ELSE body.response,
                   connected |-> conn.error = "", attempted |-> conn.called,
                   wrote |-> IF thrown # "" THEN <<>> ELSE body.wrote,
                   read |-> IF thrown # "" THEN <<>> ELSE body.read]
       /\ UNCHANGED <<nodes, credentials, SCHEMA_IDS, markerVars, scriptVars>>

\* A version without `this.initialized = false`.
configureSecretVaultKeepsHandle(args, initOk) ==
    LET conn == initSecretVault(initialized, secretVaultWrapper,
                                args.o["nodes"].s, args.o["credentials"].s, initOk)
    IN /\ Idle
       /\ nodes' = args.o["nodes"].s
       /\ credentials' = args.o["credentials"].s
       /\ initialized' = conn.initialized
       /\ secretVaultWrapper' = conn.wrapper
       /\ last' = [action |-> "configure-secretvault", args |-> args,
                   response |-> IF conn.error # "" THEN CatchNillion(conn.error)
                                ELSE <<"SecretVault configuration updated successfully">>,
                   connected |-> conn.error = "", attempted |-> conn.called,
                   wrote |-> <<>>, read |-> <<>>]
       /\ UNCHANGED <<SCHEMA_IDS, storage, uuidCount, markerVars, scriptVars>>

\* A version that puts the previous configuration and handle back when the
\* connection fails.
configureSecretVaultRestores(args, initOk) ==
    LET conn == initSecretVault(FALSE, secretVaultWrapper,
                                args.o["nodes"].s, args.o["credentials"].s, initOk)
    IN /\ Idle
       /\ nodes' = IF conn.error = "" THEN args.o["nodes"].s ELSE nodes
       /\ credentials' = IF conn.error = "" THEN args.o["credentials"].s ELSE credentials
       /\ initialized' = IF conn.error = "" THEN TRUE ELSE initialized
       /\ secretVaultWrapper' = IF conn.error = "" THEN conn.wrapper ELSE secretVaultWrapper
       /\ last' = [action |-> "configure-secretvault", args |-> args,
                   response |-> IF conn.error # "" THEN CatchNillion(conn.error)
                                ELSE <<"SecretVault configuration updated successfully">>,
                   connected |-> conn.error = "", attempted |-> conn.called,
                   wrote |-> <<>>, read |-> <<>>]
       /\ UNCHANGED <<SCHEMA_IDS, storage, uuidCount, markerVars, scriptVars>>

\* nodes and credentials are replaced, initialized is reset, then
\* initSecretVault() runs.
configureSecretVault(args, initOk) ==
    LET conn == initSecretVault(FALSE, secretVaultWrapper,
                                args.o["nodes"].s, args.o["credentials"].s, initOk)
    IN /\ Idle
       /\ nodes' = args.o["nodes"].s
       /\ credentials' = args.o["credentials"].s
       /\ initialized' = conn.initialized
       /\ secretVaultWrapper' = conn.wrapper
       /\ last' = [action |-> "configure-secretvault", args |-> args,
                   response |-> IF conn.error # "" THEN CatchNillion(conn.error)
                                ELSE <<"SecretVault configuration updated successfully">>,
                   connected |-> conn.error = "", attempted |-> conn.called,
                   wrote |-> <<>>, read |-> <<>>]
       /\ UNCHANGED <<SCHEMA_IDS, storage, uuidCount, markerVars, scriptVars>>

\* The service's createSchema answers with one entry per node (SchemaResult
\* of secretvaults.d.ts), so result.schemaId reads a property of an array.
CreateSchemaResult(schemaId) ==
    DObj([i \in {"0", "1", "2"} |-> DObj(("status" :> DNum(200)) @@ ("schemaId" :> DStr(schemaId)))])

createSchema(args, initOk, createOk) ==
    LET conn == initSecretVault(initialized, secretVaultWrapper, nodes, credentials, initOk)
        schemaType == args.o["schemaType"].s
        title == IF DTruthy(DGet(args, "title")) THEN args.o["title"].s
                 ELSE schemaType \o " Schema"
        result == CreateSchemaResult("schema-new")
        schemaId == DGet(result, "schemaId")
        done == conn.error = "" /\ createOk
    IN /\ Idle
       /\ initialized' = conn.initialized
       /\ secretVaultWrapper' = conn.wrapper
       /\ SCHEMA_IDS' = IF done
                        THEN [SCHEMA_IDS EXCEPT ![schemaType] =
                                 [t |-> schemaId.t, s |-> schemaId.s, n |-> schemaId.n]]
                        ELSE SCHEMA_IDS
       /\ last' = [action |-> "create-schema", args |-> args,
                   response |-> IF conn.error # "" THEN CatchNillion(conn.error)
                                ELSE IF ~createOk
                                THEN CatchOther("Schema creation error: ", ServiceFailure)
                                ELSE <<"Schema created successfully\nSchema ID: ",
                                       IF schemaId.t = "undefined" THEN "undefined" ELSE schemaId.s,
                                       "\nTitle: ", title>>,
                   connected |-> conn.error = "", attempted |-> conn.called,
                   wrote |-> <<>>, read |-> <<>>]
       /\ UNCHANGED <<nodes, credentials, storage, uuidCount, markerVars, scriptVars>>

createServiceListing(args, initOk, writeOk) ==
    /\ uuidCount < MaxUuid
    /\ VaultAction("create-service-listing", args, initOk, <<"SERVICE_LISTING">>,
                   createServiceListingBody(args, writeOk))

queryServiceListings(args, initOk, readOk) ==
    VaultAction("query-service-listings", args, initOk, <<"SERVICE_LISTING">>,
                queryServiceListingsBody(args, readOk))

\* A version that checks the BOOKING identifier only.
createBookingChecksBookingOnly(args, initOk, writeOk) ==
    /\ uuidCount < MaxUuid
    /\ VaultAction("create-booking", args, initOk, <<"BOOKING">>,
                   createBookingBody(args, writeOk))

createBooking(args, initOk, writeOk) ==
    /\ uuidCount < MaxUuid
    /\ VaultAction("create-booking", args, initOk, <<"BOOKING", "SERVICE_LISTING">>,
                   createBookingBody(args, writeOk))

updateBookingStatus(args, initOk) ==
    VaultAction("update-booking-status", args, initOk, <<"BOOKING">>,
                updateBookingStatusBody(args))

getBookingDetails(args, initOk) ==
    VaultAction("get-booking-details", args, initOk, <<"BOOKING">>,
                getBookingDetailsBody(args))

createFeedback(args, initOk, writeOk) ==
    /\ uuidCount < MaxUuid
    /\ VaultAction("create-feedback", args, initOk, <<"FEEDBACK">>,
                   createFeedbackBody(args, writeOk))

resolveFeedback(args, initOk) ==
    VaultAction("resolve-feedback", args, initOk, <<"FEEDBACK">>,
                resolveFeedbackBody(args))

getFeedback(args, initOk) ==
    VaultAction("get-feedback", args, initOk, <<"FEEDBACK">>, getFeedbackBody(args))

generateUuid ==
    /\ Idle
    /\ uuidCount < MaxUuid
    /\ uuidCount' = uuidCount + 1
    /\ last' = [action |-> "generate-uuid", args |-> DObj(<<>>),
                response |-> <<Uuid(uuidCount + 1)>>,
                connected |-> FALSE, attempted |-> FALSE, wrote |-> <<>>, read |-> <<>>]
    /\ UNCHANGED <<initialized, secretVaultWrapper, nodes, credentials, SCHEMA_IDS,
                   storage, markerVars, scriptVars>>

(***************************************************************************)
(* The tools.  The agent reaches an action through the tool made from its  *)
(* @CreateAction entry: the tool parses the agent's input with the         *)
(* action's schema and calls the method with what the parse gave; an       *)
(* input the schema does not accept never reaches the method.              *)
(***************************************************************************)
InvalidInput == [action |-> "invalid-input", args |-> DObj(<<>>), response |-> <<>>,
                 connected |-> FALSE, attempted |-> FALSE, wrote |-> <<>>, read |-> <<>>]

Tool(name, input, parse) ==
    /\ Idle
    /\ request' = [tool |-> name, input |-> input, accepted |-> parse.ok]

\* The parse failed: the method is not called.
Rejected ==
    /\ last' = InvalidInput
    /\ UNCHANGED <<initialized, secretVaultWrapper, nodes, credentials, SCHEMA_IDS,
                   storage, uuidCount, markerVars, scriptVars>>

configureSecretVaultTool(input, initOk) ==
    LET parse == ConfigureNodesSchema(input)
    IN /\ Tool("configure-secretvault", input, parse)
       /\ IF parse.ok THEN configureSecretVault(parse.args, initOk) ELSE Rejected

createSchemaTool(input, initOk, createOk) ==
    LET parse == CreateSchemaSchema(input)
    IN /\ Tool("create-schema", input, parse)
       /\ IF parse.ok THEN createSchema(parse.args, initOk, createOk) ELSE Rejected

createServiceListingTool(input, initOk, writeOk) ==
    LET parse == CreateServiceListingSchema(input)
    IN /\ Tool("create-service-listing", input, parse)
       /\ IF parse.ok THEN createServiceListing(parse.args, initOk, writeOk) ELSE Rejected

queryServiceListingsTool(input, initOk, readOk) ==
    LET parse == QueryServiceListingsSchema(input)
    IN /\ Tool("query-service-listings", input, parse)
       /\ IF parse.ok THEN queryServiceListings(parse.args, initOk, readOk) ELSE Rejected

createBookingTool(input, initOk, writeOk) ==
    LET parse == CreateBookingSchema(input)
    IN /\ Tool("create-booking", input, parse)
       /\ IF parse.ok THEN createBooking(parse.args, initOk, writeOk) ELSE Rejected

updateBookingStatusTool(input, initOk) ==
    LET parse == UpdateBookingStatusSchema(input)
    IN /\ Tool("update-booking-status", input, parse)
       /\ IF parse.ok THEN updateBookingStatus(parse.args, initOk) ELSE Rejected

getBookingDetailsTool(input, initOk) ==
    LET parse == GetBookingDetailsSchema(input)
    IN /\ Tool("get-booking-details", input, parse)
       /\ IF parse.ok THEN getBookingDetails(parse.args, initOk) ELSE Rejected

createFeedbackTool(input, initOk, writeOk) ==
    LET parse == CreateFeedbackSchema(input)
    IN /\ Tool("create-feedback", input, parse)
       /\ IF parse.ok THEN createFeedback(parse.args, initOk, writeOk) ELSE Rejected

resolveFeedbackTool(input, initOk) ==
    LET parse == ResolveFeedbackSchema(input)
    IN /\ Tool("resolve-feedback", input, parse)
       /\ IF parse.ok THEN resolveFeedback(parse.args, initOk) ELSE Rejected

getFeedbackTool(input, initOk) ==
    LET parse == GetFeedbackSchema(input)
    IN /\ Tool("get-feedback", input, parse)
       /\ IF parse.ok THEN getFeedback(parse.args, initOk) ELSE Rejected

\* The caller (the agent loop) prints the action's response and goes on.
Return ==
    /\ ~Idle
    /\ last' = NoAction
    /\ request' = NoRequest
    /\ UNCHANGED <<initialized, secretVaultWrapper, nodes, credentials, SCHEMA_IDS,
                   storage, uuidCount, markerVars, scriptVars>>

\* The marker's variables while the provider runs.
\* process.exit() has not been called.
Running == <<>>

\* Nothing of the processes or of the interleaved actions is running.
ScriptIdle ==
    /\ env = <<>>
    /\ pc = "none"
    /\ exitCode = Running
    /\ printed = <<>>
    /\ agentStarted = FALSE
    /\ rlOpen = FALSE
    /\ typed = <<>>
    /\ mode = ""
    /\ created = <<>>
    /\ wrappers = <<>>
    /\ tasks = <<>>

ProviderIdle ==
    /\ initialized = FALSE
    /\ secretVaultWrapper = NoWrapper
    /\ nodes = "NODES_CONFIG"
    /\ credentials = "DEFAULT_CREDENTIALS"
    /\ SCHEMA_IDS = [k \in Kinds |-> Str("")]
    /\ storage = {}
    /\ uuidCount = 0
    /\ last = NoAction
    /\ request = NoRequest

MarkerIdle ==
    /\ mHeap = <<>>
    /\ mHeap0 = <<>>
    /\ mInput = Undefined
    /\ mArg = Undefined
    /\ mArgHeap = <<>>
    /\ mRet = Undefined
    /\ mFields = <<>>
    /\ mFirstFields = <<>>
    /\ mThrew = FALSE
    /\ mCalls = 0

\* After construction: nothing connected, the node list and credentials of
\* constants.ts, and each schema identifier as the environment gave it
\* (process.env.SCHEMA_ID_... || "").
Init ==
    /\ initialized = FALSE
    /\ secretVaultWrapper = NoWrapper
    /\ nodes = "NODES_CONFIG"
    /\ credentials = "DEFAULT_CREDENTIALS"
    /\ SCHEMA_IDS \in [Kinds -> {Str(""), Str("schema-env")}]
    /\ storage = {}
    /\ uuidCount = 0
    /\ last = NoAction
    /\ request = NoRequest
    /\ MarkerIdle
    /\ ScriptIdle

\* Whether the wrapper's init() succeeds, where initSecretVault() calls it:
\* it returns at once when the provider is initialized and holds a wrapper.
InitOutcomes == IF initialized /\ secretVaultWrapper.set THEN {TRUE} ELSE BOOLEAN

\* The methods called with typed arguments.
Next ==
    \/ \E args \in ConfigureArgs, initOk \in BOOLEAN : configureSecretVault(args, initOk)
         /\ request' = NoRequest
    \/ \E args \in CreateSchemaArgs, initOk \in InitOutcomes, createOk \in BOOLEAN :
         createSchema(args, initOk, createOk)
         /\ request' = NoRequest
    \/ \E args \in ListingArgs, initOk \in InitOutcomes, writeOk \in BOOLEAN :
         createServiceListing(args, initOk, writeOk)
         /\ request' = NoRequest
    \/ \E args \in QueryArgs, initOk \in InitOutcomes, readOk \in BOOLEAN :
         queryServiceListings(args, initOk, readOk)
         /\ request' = NoRequest
    \/ \E args \in BookingArgs, initOk \in InitOutcomes, writeOk \in BOOLEAN :
         createBooking(args, initOk, writeOk)
         /\ request' = NoRequest
    \/ \E args \in UpdateBookingStatusArgs, initOk \in InitOutcomes :
         updateBookingStatus(args, initOk)
         /\ request' = NoRequest
    \/ \E args \in GetBookingDetailsArgs, initOk \in InitOutcomes : getBookingDetails(args, initOk)
         /\ request' = NoRequest
    \/ \E args \in FeedbackArgs, initOk \in InitOutcomes, writeOk \in BOOLEAN :
         createFeedback(args, initOk, writeOk)
         /\ request' = NoRequest
    \/ \E args \in ResolveFeedbackArgs, initOk \in InitOutcomes : resolveFeedback(args, initOk)
         /\ request' = NoRequest
    \/ \E args \in GetFeedbackArgs, initOk \in InitOutcomes : getFeedback(args, initOk)
         /\ request' = NoRequest
    \/ generateUuid
         /\ request' = NoRequest
    \/ Return

Spec == Init /\ [][Next]_vars

\* The methods reached through their tools, as the agent reaches them.
NextTools ==
    \/ \E input \in ConfigureRequests, initOk \in BOOLEAN :
         configureSecretVaultTool(input, initOk)
    \/ \E input \in CreateSchemaRequests, initOk \in InitOutcomes, createOk \in BOOLEAN :
         createSchemaTool(input, initOk, createOk)
    \/ \E input \in ListingRequests, initOk \in InitOutcomes, writeOk \in BOOLEAN :
         createServiceListingTool(input, initOk, writeOk)
    \/ \E input \in QueryRequests, initOk \in InitOutcomes, readOk \in BOOLEAN :
         queryServiceListingsTool(input, initOk, readOk)
    \/ \E input \in BookingRequests, initOk \in InitOutcomes, writeOk \in BOOLEAN :
         createBookingTool(input, initOk, writeOk)
    \/ \E input \in UpdateBookingStatusRequests, initOk \in InitOutcomes :
         updateBookingStatusTool(input, initOk)
    \/ \E input \in GetBookingDetailsRequests, initOk \in InitOutcomes :
         getBookingDetailsTool(input, initOk)
    \/ \E input \in FeedbackRequests, initOk \in InitOutcomes, writeOk \in BOOLEAN :
         createFeedbackTool(input, initOk, writeOk)
    \/ \E input \in ResolveFeedbackRequests, initOk \in InitOutcomes :
         resolveFeedbackTool(input, initOk)
    \/ \E input \in GetFeedbackRequests, initOk \in InitOutcomes : getFeedbackTool(input, initOk)
    \/ Return

SpecTools == Init /\ [][NextTools]_vars

(***************************************************************************)
(* The agent's process (chatbot.ts): validateEnvironment() at module load, *)
(* then main(): initializeAgent(), and the loop of chooseMode() and the    *)
(* chosen mode.                                                            *)
(***************************************************************************)
UpperCase == "ABCDEFGHIJKLMNOPQRSTUVWXYZ"
LowerCase == "abcdefghijklmnopqrstuvwxyz"
WhiteSpace == {" ", "\t", "\n"}

CharAt(text, i) == SubSeq(text, i, i)

LowerChar(c) ==
    IF \E i \in 1..Len(UpperCase) : CharAt(UpperCase, i) = c
    THEN CharAt(LowerCase, CHOOSE i \in 1..Len(UpperCase) : CharAt(UpperCase, i) = c)
    ELSE c

\* String.prototype.toLowerCase(), on ASCII text.
RECURSIVE ToLowerCase(_)
ToLowerCase(text) ==
    IF text = "" THEN ""
    ELSE LowerChar(CharAt(text, 1)) \o ToLowerCase(SubSeq(text, 2, Len(text)))

\* String.prototype.trim().
RECURSIVE Trim(_)
Trim(text) ==
    IF text = "" THEN ""
    ELSE IF CharAt(text, 1) \in WhiteSpace THEN Trim(SubSeq(text, 2, Len(text)))
    ELSE IF CharAt(text, Len(text)) \in WhiteSpace THEN Trim(SubSeq(text, 1, Len(text) - 1))
    ELSE text

\* A version that leaves the schema identifiers to be provisioned later.
requiredVarsWithoutSchemaIds ==
    <<"OPENAI_API_KEY", "WALLET_PRIVATE_KEY", "SV_ORG_DID", "SV_PRIVATE_KEY",
      "SV_NODE1_URL", "SV_NODE1_DID", "SV_NODE2_URL", "SV_NODE2_DID",
      "SV_NODE3_URL", "SV_NODE3_DID">>

requiredVars ==
    <<"OPENAI_API_KEY", "WALLET_PRIVATE_KEY", "SV_ORG_DID", "SV_PRIVATE_KEY",
      "SV_NODE1_URL", "SV_NODE1_DID", "SV_NODE2_URL", "SV_NODE2_DID",
      "SV_NODE3_URL", "SV_NODE3_DID",
      "SCHEMA_ID_SERVICE_LISTING", "SCHEMA_ID_BOOKING", "SCHEMA_ID_FEEDBACK">>

\* The variables of the process's environment that the agent reads.
EnvNames ==
    {"OPENAI_API_KEY", "WALLET_PRIVATE_KEY", "SV_ORG_DID", "SV_PRIVATE_KEY",
     "SV_NODE1_URL", "SV_NODE1_DID", "SV_NODE2_URL", "SV_NODE2_DID",
     "SV_NODE3_URL", "SV_NODE3_DID",
     "SCHEMA_ID_SERVICE_LISTING", "SCHEMA_ID_BOOKING", "SCHEMA_ID_FEEDBACK"}

\* The environments: process.env[name] is a string, or undefined when the
\* variable is not set.  Every set of variables may be missing, either not
\* set or set to the empty string.
Environments ==
    { [v \in EnvNames |-> IF v \in missing THEN how ELSE Str("value-of-" \o v)] :
        missing \in SUBSET EnvNames, how \in {Undefined, Str("")} }

CompleteEnvironment == [v \in EnvNames |-> Str("value-of-" \o v)]

\* requiredVars.forEach: the names whose value is falsy, in order.
RECURSIVE missingVars(_, _, _)
missingVars(e, required, i) ==
    IF i > Len(required) THEN <<>>
    ELSE (IF ~Truthy(e[required[i]]) THEN <<required[i]>> ELSE <<>>)
         \o missingVars(e, required, i + 1)

MissingLine == [v \in EnvNames |-> v \o "=your_" \o ToLowerCase(v) \o "_here"]

\* validateEnvironment(), called at module load.
validateEnvironment ==
    LET missing == missingVars(env, requiredVars, 1) IN
    /\ pc = "load"
    /\ IF Len(missing) > 0
       THEN /\ printed' = printed
                 \o <<"Error: Required environment variables are not set">>
                 \o [i \in 1..Len(missing) |-> MissingLine[missing[i]]]
                 \o (IF \E i \in 1..Len(missing) :
                         missing[i] \in {"SCHEMA_ID_SERVICE_LISTING", "SCHEMA_ID_BOOKING",
                                         "SCHEMA_ID_FEEDBACK"}
                     THEN <<"\nMissing schema IDs. Run the schema creation script to generate them:",
                            "npm run create-schemas">>
                     ELSE <<>>)
            /\ exitCode' = <<1>>
            /\ pc' = "exited"
       ELSE /\ printed' = Append(printed, "Environment validated successfully")
            /\ exitCode' = exitCode
            /\ pc' = "main"
    /\ UNCHANGED <<env, agentStarted, rlOpen, typed, mode, created, raceVars,
                   providerVars, markerVars>>

\* main(): initializeAgent() builds the wallet client, the model and the
\* agent; when it throws, main's catch prints the error and exits.
initializeAgent(ok) ==
    /\ pc = "main"
    /\ agentStarted' = TRUE
    /\ IF ok
       THEN /\ printed' = printed \o <<"Starting initialization...", "Agent initialized successfully">>
            /\ pc' = "select"
            /\ exitCode' = exitCode
       ELSE /\ printed' = printed \o <<"Starting initialization...", "Fatal error:">>
            /\ pc' = "exited"
            /\ exitCode' = <<1>>
    /\ UNCHANGED <<env, rlOpen, typed, mode, created, raceVars, providerVars, markerVars>>

\* chooseMode(): createInterface(), before the loop.
chooseModeEnter ==
    /\ pc = "select"
    /\ rlOpen' = TRUE
    /\ mode' = ""
    /\ pc' = "prompt"
    /\ UNCHANGED <<env, exitCode, printed, agentStarted, typed, created, raceVars,
                   providerVars, markerVars>>

\* What rl.question() does on an interface that was closed: it throws
\* ERR_USE_AFTER_CLOSE (the promise rejects, chooseMode() throws, main's
\* catch exits), or, in a runtime without that check, the callback is never
\* called and the promise stays pending.
QuestionAfterClose == {"throws", "pending"}

\* The loop body up to the await: the menu, then rl.question().
chooseModeQuestion(afterClose) ==
    /\ pc = "prompt"
    /\ IF rlOpen
       THEN /\ pc' = "question"
            /\ printed' = Append(printed, "\nChoose a mode (enter number or name): ")
            /\ exitCode' = exitCode
       ELSE IF afterClose = "throws"
       THEN /\ pc' = "exited"
            /\ printed' = Append(printed, "Fatal error:")
            /\ exitCode' = <<1>>
       ELSE /\ pc' = "pending"
            /\ printed' = printed
            /\ exitCode' = exitCode
    /\ UNCHANGED <<env, agentStarted, rlOpen, typed, mode, created, raceVars,
                   providerVars, markerVars>>

ModeOf(choice) ==
    IF choice = "1" \/ choice = "chat" THEN "chat"
    ELSE IF choice = "2" \/ choice = "telegram" THEN "telegram"
    ELSE IF choice = "3" \/ choice = "auto" THEN "auto"
    ELSE IF choice = "4" \/ choice = "demo" THEN "demo"
    ELSE ""

\* The user's line arrives: the rest of the loop body.
chooseModeAnswer ==
    /\ pc = "question"
    /\ typed # <<>>
    /\ LET choice == Trim(ToLowerCase(Head(typed))) IN
       /\ typed' = Tail(typed)
       /\ rlOpen' = FALSE
       /\ IF ModeOf(choice) # ""
          THEN /\ mode' = ModeOf(choice)
               /\ printed' = Append(printed, "Selected mode: " \o ModeOf(choice))
               /\ pc' = "mode"
          ELSE /\ mode' = mode
               /\ printed' = Append(printed, "Invalid choice. Please try again.")
               /\ pc' = "prompt"
    /\ UNCHANGED <<env, exitCode, agentStarted, created, raceVars, providerVars, markerVars>>

\* The chosen mode ends and main() goes back to the selection.
modeReturns ==
    /\ pc = "mode"
    /\ printed' = Append(printed, "\nReturning to mode selection...")
    /\ pc' = "select"
    /\ UNCHANGED <<env, exitCode, agentStarted, rlOpen, typed, mode, created, raceVars,
                   providerVars, markerVars>>

\* What the user may type.
Lines == {"1", "chat", " Chat ", "2", "TELEGRAM", "3", "auto\n", "4", "Demo",
          "5", "", "chat mode", "x"}

MaxTyped == 2

ProcessStart(e, lines, at) ==
    /\ env = e
    /\ pc = at
    /\ exitCode = Running
    /\ printed = <<>>
    /\ agentStarted = FALSE
    /\ rlOpen = FALSE
    /\ typed = lines
    /\ mode = ""
    /\ created = <<>>
    /\ wrappers = <<>>
    /\ tasks = <<>>

NextProcess ==
    \/ validateEnvironment
    \/ \E ok \in BOOLEAN : initializeAgent(ok)
    \/ chooseModeEnter
    \/ \E afterClose \in QuestionAfterClose : chooseModeQuestion(afterClose)
    \/ chooseModeAnswer
    \/ modeReturns

\* The process started in any environment; the user types one valid line.
InitStartup ==
    /\ ProviderIdle
    /\ MarkerIdle
    /\ \E e \in Environments, lines \in {<<>>, <<"chat">>} : ProcessStart(e, lines, "load")

SpecStartup == InitStartup /\ [][NextProcess]_vars

\* The process started in a complete environment; the user types any lines.
\* A step that can be taken is taken: the event loop runs what is ready.
InitMode ==
    /\ ProviderIdle
    /\ MarkerIdle
    /\ \E lines \in UNION { [1..n -> Lines] : n \in 0..MaxTyped } : ProcessStart(CompleteEnvironment, lines, "load")

SpecMode == InitMode /\ [][NextProcess]_vars /\ WF_vars(NextProcess)

(***************************************************************************)
(* The schema setup script (scripts/createSchemas.ts): it connects, asks   *)
(* the service to create the three schemas and reads the identifier of     *)
(* each out of the service's answer.                                       *)
(***************************************************************************)
MaxNodes == 3

\* What org.createSchema() may resolve to: something that is no array, or
\* an array with one entry per node that answered; of an entry only its
\* schemaId matters here, a string or undefined when the entry has none.
SchemaIdValues == {Str("schema-1"), Str("schema-2"), Undefined}

ArrayOf(items) == [array |-> TRUE, items |-> items]

SchemaResponses ==
    {[array |-> FALSE, items |-> <<>>]} \cup { ArrayOf(items) : items \in UNION { [1..n -> SchemaIdValues] : n \in 0..MaxNodes } }

\* A version that trusts the first node.
getSchemaIdFromFirstNode(response) ==
    IF ~response.array \/ Len(response.items) = 0
    THEN [threw |-> "Invalid response format from SecretVault API", ret |-> Undefined]
    ELSE [threw |-> "", ret |-> response.items[1]]

\* [threw, ret]: the message of the Error thrown ("" when none), and the
\* value returned.
getSchemaIdFromResponse(response) ==
    IF ~response.array \/ Len(response.items) = 0
    THEN [threw |-> "Invalid response format from SecretVault API", ret |-> Undefined]
    ELSE LET schemaId == response.items[1]
             allSameId == \A i \in 1..Len(response.items) : response.items[i] = schemaId
         IN IF ~allSameId
            THEN [threw |-> "Inconsistent schema IDs returned from nodes", ret |-> Undefined]
            ELSE [threw |-> "", ret |-> schemaId]

\* main(): the two checks of the environment.
setupCheckEnvironment ==
    /\ pc = "setup"
    /\ IF \E v \in {"SV_ORG_DID", "SV_PRIVATE_KEY"} : ~Truthy(env[v])
       THEN /\ printed' = Append(printed,
                  "ERROR: Required environment variables SV_ORG_DID and SV_PRIVATE_KEY must be set.")
            /\ exitCode' = <<1>>
            /\ pc' = "exited"
       ELSE IF \E v \in {"SV_NODE1_URL", "SV_NODE1_DID", "SV_NODE2_URL", "SV_NODE2_DID",
                         "SV_NODE3_URL", "SV_NODE3_DID"} : ~Truthy(env[v])
       THEN /\ printed' = printed \o
                  <<"ERROR: Node environment variables are missing.",
                    "Make sure SV_NODE1_URL, SV_NODE1_DID, SV_NODE2_URL, SV_NODE2_DID, SV_NODE3_URL, and SV_NODE3_DID are properly set.">>
            /\ exitCode' = <<1>>
            /\ pc' = "exited"
       ELSE /\ printed' = Append(printed, "Initializing SecretVault organization...")
            /\ exitCode' = exitCode
            /\ pc' = "connect"
    /\ UNCHANGED <<env, agentStarted, rlOpen, typed, mode, created, raceVars,
                   providerVars, markerVars>>

\* new SecretVaultWrapper(nodes, credentials) and org.init().
setupInit(ok) ==
    /\ pc = "connect"
    /\ IF ok
       THEN /\ printed' = Append(printed, "Organization initialized successfully")
            /\ exitCode' = exitCode
            /\ pc' = "create"
       ELSE /\ printed' = Append(printed, "Error creating schemas: " \o ServiceFailure)
            /\ exitCode' = <<1>>
            /\ pc' = "exited"
    /\ UNCHANGED <<env, agentStarted, rlOpen, typed, mode, created, raceVars,
                   providerVars, markerVars>>

SetupKinds == <<"SERVICE_LISTING", "BOOKING", "FEEDBACK">>

IdText(v) == IF v.t = "undefined" THEN "undefined" ELSE v.s

\* org.createSchema() for the next kind, then getSchemaIdFromResponse() on
\* its answer; whatever is thrown ends the script in main's catch.
setupCreateSchema(ok, response) ==
    LET kind == SetupKinds[Len(created) + 1]
        got == getSchemaIdFromResponse(response)
        threw == IF ok THEN got.threw ELSE ServiceFailure
    IN /\ pc = "create"
       /\ created' = Append(created, [kind |-> kind, called |-> ok, result |-> response,
                                      threw |-> threw,
                                      schemaId |-> IF threw = "" THEN got.ret ELSE Undefined])
       /\ IF threw # ""
          THEN /\ printed' = Append(printed, "Error creating schemas: " \o threw)
               /\ exitCode' = <<1>>
               /\ pc' = "exited"
          ELSE /\ printed' = Append(printed, "Schema ID: " \o IdText(got.ret))
               /\ exitCode' = exitCode
               /\ pc' = IF Len(created) + 1 = Len(SetupKinds) THEN "report" ELSE "create"
       /\ UNCHANGED <<env, agentStarted, rlOpen, typed, mode, raceVars,
                      providerVars, markerVars>>

\* The closing lines: what to put into .env.
setupReport ==
    /\ pc = "report"
    /\ printed' = printed \o
           <<"All schemas created successfully">>
           \o [i \in 1..Len(created) |->
                 "Set SCHEMA_ID_" \o created[i].kind \o "=\"" \o IdText(created[i].schemaId) \o "\""]
    /\ pc' = "done"
    /\ UNCHANGED <<env, exitCode, agentStarted, rlOpen, typed, mode, created, raceVars,
                   providerVars, markerVars>>

InitSetup ==
    /\ ProviderIdle
    /\ MarkerIdle
    /\ \E v \in {"SV_ORG_DID", "SV_NODE2_URL", "SCHEMA_ID_BOOKING"},
          how \in {Undefined, Str(""), Str("set")} :
         ProcessStart([CompleteEnvironment EXCEPT ![v] = how], <<>>, "setup")

NextSetup ==
    \/ setupCheckEnvironment
    \/ \E ok \in BOOLEAN : setupInit(ok)
    \/ \E ok \in BOOLEAN, response \in SchemaResponses : setupCreateSchema(ok, response)
    \/ setupReport

SpecSetup == InitSetup /\ [][NextSetup]_vars

(***************************************************************************)
(* Actions of the provider in flight together.  An async method runs       *)
(* without interruption up to its next await; there another action's next  *)
(* stretch may run.  initSecretVault() awaits twice (the import of the     *)
(* client library, then init() of the new wrapper), every caller awaits    *)
(* initSecretVault(), and every vault action awaits its call on            *)
(* this.secretVaultWrapper.  Here this.secretVaultWrapper is a reference   *)
(* to one of the wrapper objects constructed so far.                       *)
(***************************************************************************)
MaxTasks == 2

TaskIds == 1..MaxTasks

WRef(i) == [set |-> TRUE, ref |-> i]

NoTask == [action |-> "none", args |-> DObj(<<>>), pc |-> "idle", w |-> 0, used |-> 0,
           usedReady |-> FALSE, wrote |-> <<>>, read |-> <<>>, response |-> <<>>]

\* The vault actions that are raced, with the arguments they are given.
RaceCalls ==
    { [action |-> "create-service-listing", args |-> DObj(("provider_name" :> DStr("Ana")) @@ ListingBase)],
      [action |-> "query-service-listings", args |-> DObj(<<>>)],
      [action |-> "create-schema", args |-> DObj("schemaType" :> DStr("SERVICE_LISTING"))] }

\* initSecretVault() up to its first await: the test of the flag and the
\* handle.  It returns at once ("resume": the caller goes on after its own
\* await) or goes on to import the client library ("import").
raceInitSecretVault(init, wrapper) == IF init /\ wrapper.set THEN "resume" ELSE "import"

\* A version that assigns the node list only before the connection.
raceConfigureNodesOnly(t, args) ==
    /\ tasks[t].pc = "idle"
    /\ nodes' = args.o["nodes"].s
    /\ credentials' = credentials
    /\ initialized' = FALSE
    /\ tasks' = [tasks EXCEPT ![t] = [NoTask EXCEPT !.action = "configure-secretvault",
                                                     !.args = args,
                                                     !.pc = raceInitSecretVault(FALSE, secretVaultWrapper)]]
    /\ UNCHANGED <<secretVaultWrapper, SCHEMA_IDS, storage, uuidCount, last, request,
                   wrappers, processVars, markerVars>>

\* configureSecretVault() up to its first await: the three assignments and
\* the start of initSecretVault().
raceConfigure(t, args) ==
    /\ tasks[t].pc = "idle"
    /\ nodes' = args.o["nodes"].s
    /\ credentials' = args.o["credentials"].s
    /\ initialized' = FALSE
    /\ tasks' = [tasks EXCEPT ![t] = [NoTask EXCEPT !.action = "configure-secretvault",
                                                     !.args = args,
                                                     !.pc = raceInitSecretVault(FALSE, secretVaultWrapper)]]
    /\ UNCHANGED <<secretVaultWrapper, SCHEMA_IDS, storage, uuidCount, last, request,
                   wrappers, processVars, markerVars>>

\* Any other vault action up to its first await: the start of
\* initSecretVault().
raceInvoke(t, call) ==
    /\ tasks[t].pc = "idle"
    /\ tasks' = [tasks EXCEPT ![t] = [NoTask EXCEPT !.action = call.action,
                                                     !.args = call.args,
                                                     !.pc = raceInitSecretVault(initialized,
                                                                                secretVaultWrapper)]]
    /\ UNCHANGED <<providerVars, wrappers, processVars, markerVars>>

\* The import has resolved: the wrapper is constructed from this.nodes and
\* this.credentials, stored in this.secretVaultWrapper, and its init() is
\* called.
raceConstruct(t) ==
    /\ tasks[t].pc = "import"
    /\ wrappers' = Append(wrappers, [nodes |-> nodes, credentials |-> credentials,
                                     init |-> "pending"])
    /\ secretVaultWrapper' = WRef(Len(wrappers) + 1)
    /\ tasks' = [tasks EXCEPT ![t].pc = "init", ![t].w = Len(wrappers) + 1]
    /\ UNCHANGED <<initialized, nodes, credentials, SCHEMA_IDS, storage, uuidCount, last,
                   request, processVars, markerVars>>

\* init() of the wrapper the action constructed has settled: the flag is
\* set, or InitializationError is thrown and the action's catch answers.
raceInitSettles(t, ok) ==
    /\ tasks[t].pc = "init"
    /\ wrappers' = [wrappers EXCEPT ![tasks[t].w].init = IF ok THEN "done" ELSE "failed"]
    /\ initialized' = IF ok THEN TRUE ELSE initialized
    /\ tasks' = IF ok
                THEN [tasks EXCEPT ![t].pc = "resume"]
                ELSE [tasks EXCEPT ![t].pc = "done",
                                   ![t].response = CatchNillion(InitializationError(ServiceFailure))]
    /\ UNCHANGED <<secretVaultWrapper, nodes, credentials, SCHEMA_IDS, storage, uuidCount,
                   last, request, processVars, markerVars>>

\* The action goes on after `await this.initSecretVault()`:
\* configure-connection answers; the others check the schema identifier,
\* build what they send and call the service on this.secretVaultWrapper,
\* whatever wrapper that is by now.
raceResume(t) ==
    LET task == tasks[t]
        missing == IF task.action = "create-schema" THEN ""
                   ELSE FirstMissing(<<"SERVICE_LISTING">>, 1)
        current == secretVaultWrapper.ref
        called == [task EXCEPT !.pc = "call", !.used = current,
                               !.usedReady = wrappers[current].init = "done"]
    IN /\ task.pc = "resume"
       /\ IF task.action = "configure-secretvault"
          THEN /\ tasks' = [tasks EXCEPT ![t].pc = "done",
                              ![t].response = <<"SecretVault configuration updated successfully">>]
               /\ uuidCount' = uuidCount
          ELSE IF missing # ""
          THEN /\ tasks' = [tasks EXCEPT ![t].pc = "done",
                              ![t].response = CatchNillion(MissingSchemaError(missing))]
               /\ uuidCount' = uuidCount
          ELSE IF task.action = "create-service-listing"
          THEN /\ tasks' = [tasks EXCEPT ![t] =
                              [called EXCEPT !.wrote = <<BuildListing(task.args, Uuid(uuidCount + 1))>>]]
               /\ uuidCount' = uuidCount + 1
          ELSE IF task.action = "query-service-listings"
          THEN /\ tasks' = [tasks EXCEPT ![t] = [called EXCEPT !.read = <<QueryFilters(task.args)>>]]
               /\ uuidCount' = uuidCount
          ELSE /\ tasks' = [tasks EXCEPT ![t] = called]
               /\ uuidCount' = uuidCount
       /\ UNCHANGED <<initialized, secretVaultWrapper, nodes, credentials, SCHEMA_IDS, storage,
                      last, request, wrappers, processVars, markerVars>>

\* The call on the service has settled: the action answers.
raceCallSettles(t, ok) ==
    LET task == tasks[t]
        schemaId == DGet(CreateSchemaResult("schema-new"), "schemaId")
    IN /\ task.pc = "call"
       /\ storage' = IF ok /\ task.action = "create-service-listing"
                     THEN storage \cup {task.wrote[1]} ELSE storage
       /\ SCHEMA_IDS' = IF ok /\ task.action = "create-schema"
                        THEN [SCHEMA_IDS EXCEPT ![task.args.o["schemaType"].s] =
                                 [t |-> schemaId.t, s |-> schemaId.s, n |-> schemaId.n]]
                        ELSE SCHEMA_IDS
       /\ tasks' = [tasks EXCEPT ![t].pc = "done",
                       ![t].response =
                           CASE task.action = "create-service-listing" ->
                                    IF ok THEN <<"Service listing created successfully\nListing ID: ",
                                                 DGet(task.wrote[1], "_id").s>>
                                    ELSE CatchOther("Error creating service listing: ", ServiceFailure)
                             [] task.action = "query-service-listings" ->
                                    IF ok THEN QueryResponse(ReadFromNodes(task.read[1], 1))
                                    ELSE CatchOther("Error querying service listings: ", ServiceFailure)
                             [] OTHER ->
                                    IF ok THEN <<"Schema created successfully\nSchema ID: ",
                                                 IF schemaId.t = "undefined" THEN "undefined"
                                                 ELSE schemaId.s,
                                                 "\nTitle: ", task.args.o["schemaType"].s \o " Schema">>
                                    ELSE CatchOther("Schema creation error: ", ServiceFailure)]
       /\ UNCHANGED <<initialized, secretVaultWrapper, nodes, credentials, uuidCount, last,
                      request, wrappers, processVars, markerVars>>

\* The provider as constructed, with the schema identifiers provisioned,
\* and MaxTasks actions about to be called.
InitRace ==
    /\ initialized = FALSE
    /\ secretVaultWrapper = NoWrapper
    /\ nodes = "NODES_CONFIG"
    /\ credentials = "DEFAULT_CREDENTIALS"
    /\ SCHEMA_IDS = [k \in Kinds |-> Str("schema-env")]
    /\ storage = {}
    /\ uuidCount = 0
    /\ last = NoAction
    /\ request = NoRequest
    /\ MarkerIdle
    /\ env = <<>> /\ pc = "none" /\ exitCode = Running /\ printed = <<>>
    /\ agentStarted = FALSE /\ rlOpen = FALSE /\ typed = <<>> /\ mode = "" /\ created = <<>>
    /\ wrappers = <<>>
    /\ tasks = [t \in TaskIds |-> NoTask]

NextRace ==
    \/ \E t \in TaskIds, args \in ConfigureArgs : raceConfigure(t, args)
    \/ \E t \in TaskIds, call \in RaceCalls : raceInvoke(t, call)
    \/ \E t \in TaskIds : raceConstruct(t)
    \/ \E t \in TaskIds, ok \in BOOLEAN : raceInitSettles(t, ok)
    \/ \E t \in TaskIds : raceResume(t)
    \/ \E t \in TaskIds, ok \in BOOLEAN : raceCallSettles(t, ok)

SpecRace == InitRace /\ [][NextRace]_vars

(***************************************************************************)
(* Properties of the agent's process.                                      *)
(***************************************************************************)
NonEmpty(v) == v.t = "string" /\ v.s # ""

VaultUntouched == ~initialized /\ secretVaultWrapper = NoWrapper /\ storage = {}

\* C21: the process gets past validateEnvironment(), to initializeAgent()
\* and beyond, only when each of the 13 variables is non-empty; when one is
\* not set or empty the process has exited with status 1 once the
\* validation has run, initializeAgent() was never entered and the vault
\* was not touched.
C21_StartupNeedsEveryVariable ==
    /\ Cardinality(EnvNames) = 13
    /\ (agentStarted \/ pc \notin {"load", "exited"}) =>
           \A v \in EnvNames : NonEmpty(env[v])
    /\ (pc # "load" /\ \E v \in EnvNames : ~NonEmpty(env[v])) =>
           /\ pc = "exited"
           /\ exitCode = <<1>>
           /\ ~agentStarted
           /\ VaultUntouched

\* The process exited because one schema identifier was the empty string.
C21_Witness ==
    /\ pc = "exited"
    /\ exitCode = <<1>>
    /\ ~agentStarted
    /\ env["SCHEMA_ID_FEEDBACK"] = Str("")
    /\ \A v \in EnvNames \ {"SCHEMA_ID_FEEDBACK"} : NonEmpty(env[v])
    /\ printed = <<"Error: Required environment variables are not set",
                   "SCHEMA_ID_FEEDBACK=your_schema_id_feedback_here",
                   "\nMissing schema IDs. Run the schema creation script to generate them:",
                   "npm run create-schemas">>

\* The process reached a mode with every variable set.
StartupProceeds == pc = "mode" /\ mode = "chat" /\ agentStarted

Modes == {"chat", "telegram", "auto", "demo"}

InvalidChoiceMade ==
    /\ pc = "prompt"
    /\ printed # <<>>
    /\ printed[Len(printed)] = "Invalid choice. Please try again."

NextChoice == Trim(ToLowerCase(Head(typed)))

\* C30: chooseMode() returns one of the four modes only, and a valid choice
\* that is typed after an invalid one is eventually returned.
C30_ValidChoiceAfterInvalidReturned ==
    /\ [](mode \in Modes \cup {""})
    /\ \A m \in Modes :
         (InvalidChoiceMade /\ typed # <<>> /\ ModeOf(NextChoice) = m)
             ~> (pc = "mode" /\ mode = m)

\* What does hold: the first choice of a chooseMode() call is read and, when
\* it is valid, returned; after an invalid choice the interface is closed,
\* and the call never reads a line again.
FirstChoiceOnly ==
    [][ /\ mode' \in Modes \cup {""}
        /\ (pc = "question" /\ typed # <<>> /\ ModeOf(NextChoice) # "") =>
             (pc' = "mode" /\ mode' = ModeOf(NextChoice))
        /\ InvalidChoiceMade => (~rlOpen /\ pc' \in {"prompt", "exited", "pending"} /\ typed' = typed)
      ]_vars

\* An invalid choice was made and the valid line that follows stays unread.
ValidLineLeftUnread ==
    /\ pc \in {"exited", "pending"}
    /\ typed = <<"chat">>
    /\ mode = ""
    /\ agentStarted

(***************************************************************************)
(* Properties of the schema setup script.                                  *)
(***************************************************************************)
\* The entries of the answer carry one common identifier, id.
AllCarry(response, id) ==
    /\ response.array
    /\ Len(response.items) > 0
    /\ \A i \in 1..Len(response.items) : response.items[i] = Str(id)

TwoDiffer(response) ==
    \E i, j \in 1..Len(response.items) : response.items[i] # response.items[j]

ReturnedId(c) == c.threw = "" /\ c.schemaId.t = "string"

\* C29: for every answer of createSchema() the script has read,
\* getSchemaIdFromResponse returned an identifier exactly when the answer
\* was a non-empty array whose entries all carry the same schemaId, and
\* then it returned that identifier; when the answer was no array, was
\* empty, or held two different identifiers, it threw.
C29_CommonSchemaIdOrError ==
    \A n \in 1..Len(created) :
        LET c == created[n] IN
        c.called =>
            /\ ReturnedId(c) <=> \E id \in {"schema-1", "schema-2"} : AllCarry(c.result, id)
            /\ ReturnedId(c) => AllCarry(c.result, c.schemaId.s)
            /\ (~c.result.array \/ Len(c.result.items) = 0 \/ TwoDiffer(c.result)) =>
                   /\ c.threw # ""
                   /\ c.schemaId = Undefined
                   /\ pc = "exited" /\ exitCode = <<1>>

\* Three nodes gave the same identifier for the second schema.
C29_Witness ==
    /\ Len(created) = 2
    /\ created[2].kind = "BOOKING"
    /\ created[2].called
    /\ created[2].result = ArrayOf(<<Str("schema-2"), Str("schema-2"), Str("schema-2")>>)
    /\ created[2].schemaId = Str("schema-2")
    /\ pc = "create"

\* Two nodes gave different identifiers: the script stopped.
InconsistentIdsStopTheScript ==
    /\ Len(created) = 1
    /\ created[1].result = ArrayOf(<<Str("schema-1"), Str("schema-2")>>)
    /\ created[1].threw = "Inconsistent schema IDs returned from nodes"
    /\ pc = "exited"

(***************************************************************************)
(* Properties of the actions in flight together.                           *)
(***************************************************************************)
\* The pairs of node list and credentials that are ever configured: the
\* constructor's, and those of the configure-connection calls.
Configurations ==
    { <<"NODES_CONFIG", "DEFAULT_CREDENTIALS">> }
      \cup { <<a.o["nodes"].s, a.o["credentials"].s>> : a \in ConfigureArgs }

Mismatched(w) == <<w.nodes, w.credentials>> \notin Configurations

\* A configure-connection and another action have both constructed a
\* handle, one while the other was in flight.
RacedAcrossReconfiguration ==
    \E c, a \in TaskIds :
        /\ tasks[c].action = "configure-secretvault"
        /\ tasks[a].action \notin {"none", "configure-secretvault"}
        /\ tasks[c].w # 0 /\ tasks[a].w # 0
        /\ wrappers[tasks[c].w].nodes # wrappers[tasks[a].w].nodes
        /\ tasks[c].pc # "done" \/ tasks[a].pc # "done"

\* C22 (as claimed): where configure-connection has run interleaved with
\* another action, a handle has been constructed from the node list of one
\* configuration and the credentials of another.
C22_RaceMismatchesPairing ==
    RacedAcrossReconfiguration => \E i \in 1..Len(wrappers) : Mismatched(wrappers[i])

\* C22 (amended): in every interleaving every handle is constructed from
\* the node list and the credentials of one and the same configuration, and
\* the configured node list and credentials are always such a pair.
C22_NoInterleavingMismatchesPairing ==
    /\ <<nodes, credentials>> \in Configurations
    /\ \A i \in 1..Len(wrappers) : ~Mismatched(wrappers[i])

\* configure-connection and create-listing each await init() of their own
\* handle, built from different configurations.
C22_Witness ==
    /\ RacedAcrossReconfiguration
    /\ \E c, a \in TaskIds :
         /\ tasks[c].action = "configure-secretvault" /\ tasks[c].pc = "init"
         /\ tasks[a].action = "create-service-listing" /\ tasks[a].pc = "init"
         /\ wrappers[tasks[a].w].nodes = "NODES_CONFIG"
         /\ wrappers[tasks[c].w].nodes = "nodes-B"
         /\ nodes = "nodes-B" /\ credentials = "credentials-B"

\* C23: no action calls writeToNodes, readFromNodes or createSchema on a
\* handle whose init() has not completed successfully, and the initialized
\* flag is true only while this.secretVaultWrapper is a handle whose init()
\* succeeded.
C23_OnlyInitializedHandlesUsed ==
    /\ \A t \in TaskIds : tasks[t].used # 0 => tasks[t].usedReady
    /\ initialized =>
         /\ secretVaultWrapper.set
         /\ wrappers[secretVaultWrapper.ref].init = "done"

\* What does hold: an action calls the service only after init() of the
\* handle it constructed itself, or of the handle it found, has succeeded.
OwnHandleInitialized ==
    \A t \in TaskIds :
        (tasks[t].used # 0 /\ tasks[t].w # 0) => wrappers[tasks[t].w].init = "done"

(***************************************************************************)
(* Properties of the provider.                                             *)
(***************************************************************************)
\* The records the action handed to writeToNodes.
Handed == { last.wrote[i] : i \in 1..Len(last.wrote) }

IsListing(r) == "status" \in DOMAIN r.o
IsBooking(r) == "service_status" \in DOMAIN r.o
IsFeedback(r) == "resolution_status" \in DOMAIN r.o

\* An optional confidential field: wrapped when supplied, not there when omitted.
OptionalWrapped(rec, args, k) ==
    IF k \in DOMAIN args.o THEN DGet(rec, k) = DWrap(args.o[k]) ELSE k \notin DOMAIN rec.o

\* C2 (as claimed): every record handed to writeToNodes carries its mandatory
\* confidential fields as {'%allot': value}, never as a plain value, and
\* meeting_link / agent_notes wrapped when supplied and absent when omitted.
C2_ConfidentialFieldsWrapped ==
    \A rec \in Handed :
        /\ last.action = "create-service-listing" =>
             \A k \in {"provider_name", "provider_id", "contact_info"} :
                 DGet(rec, k) = DWrap(last.args.o[k])
        /\ last.action = "create-booking" =>
             /\ \A k \in {"customer_id", "customer_name"} :
                    DGet(rec, k) = DWrap(last.args.o[k])
             /\ OptionalWrapped(rec, last.args, "meeting_link")
        /\ last.action = "create-feedback" =>
             OptionalWrapped(rec, last.args, "agent_notes")

\* What the code does keep: confidential fields holding non-empty strings
\* are wrapped.
BuilderWrapsNonEmptyFields ==
    \A rec \in Handed :
        \A k \in {"provider_name", "provider_id", "contact_info", "customer_id",
                  "customer_name", "meeting_link", "agent_notes"} :
            (k \in DOMAIN last.args.o /\ DTruthy(last.args.o[k]))
                => DGet(rec, k) = DWrap(last.args.o[k])

\* C6: the record a create action builds holds the identifier uuidv4() just
\* generated (non-empty) and the default status of its kind - 'available';
\* 'scheduled' and 'pending'; 'pending' - whatever fields the input carries.
C6_GeneratedIdAndDefaults ==
    \A rec \in Handed :
        /\ DGet(rec, "_id") = DStr(Uuid(uuidCount))
        /\ DGet(rec, "_id").s # ""
        /\ last.action = "create-service-listing" =>
             DGet(rec, "status") = DStr("available")
        /\ last.action = "create-booking" =>
             /\ DGet(rec, "service_status") = DStr("scheduled")
             /\ DGet(rec, "payment_status") = DStr("pending")
        /\ last.action = "create-feedback" =>
             DGet(rec, "resolution_status") = DStr("pending")

\* A booking built from an input that carries statuses and an _id of its own,
\* after a listing was stored.
C6_Witness ==
    /\ last.action = "create-booking"
    /\ Handed # {}
    /\ DGet(last.args, "payment_status") = DStr("paid")
    /\ DGet(last.args, "_id") = DStr("")
    /\ \E r \in storage : IsListing(r)

\* C7: after any sequence of actions every stored listing is 'available',
\* every stored booking 'scheduled' and 'pending', every stored feedback
\* 'pending'.
C7_StoredStatusesAreDefaults ==
    \A r \in storage :
        /\ IsListing(r) \/ IsBooking(r) \/ IsFeedback(r)
        /\ IsListing(r) => DGet(r, "status") = DStr("available")
        /\ IsBooking(r) => /\ DGet(r, "service_status") = DStr("scheduled")
                           /\ DGet(r, "payment_status") = DStr("pending")
        /\ IsFeedback(r) => DGet(r, "resolution_status") = DStr("pending")

\* update-booking-status answered 'completed' for a booking that is stored.
C7_Witness ==
    /\ last.action = "update-booking-status"
    /\ last.response = <<"Booking status updated to: ", "completed">>
    /\ \E r \in storage : IsBooking(r) /\ DGet(r, "_id") = DGet(last.args, "booking_id")

StubActions ==
    {"update-booking-status", "get-booking-details", "resolve-feedback", "get-feedback"}

\* C8: update-booking-status, get-booking-details, resolve-feedback and
\* get-feedback hand nothing to writeToNodes or readFromNodes and leave the
\* external storage as it was; update-booking-status and resolve-feedback,
\* once past the connection step and the presence check, answer with the
\* requested status whatever the identifier and the stored status.
C8_StubsLeaveStorageAlone ==
    [][ last'.action \in StubActions =>
          /\ storage' = storage
          /\ last'.wrote = <<>>
          /\ last'.read = <<>>
          /\ (last'.action = "update-booking-status" /\ last'.connected
                /\ Truthy(SCHEMA_IDS["BOOKING"]))
               => last'.response = <<"Booking status updated to: ",
                                     last'.args.o["service_status"].s>>
          /\ (last'.action = "resolve-feedback" /\ last'.connected
                /\ Truthy(SCHEMA_IDS["FEEDBACK"]))
               => last'.response = <<"Feedback resolved with status: ",
                                     last'.args.o["resolution_status"].s>>
      ]_vars

\* resolve-feedback answered 'refunded' for an identifier no record has,
\* while a feedback record is stored.
C8_Witness ==
    /\ last.action = "resolve-feedback"
    /\ last.response = <<"Feedback resolved with status: ", "refunded">>
    /\ DGet(last.args, "feedback_id") = DStr("no-such-id")
    /\ \E r \in storage : IsFeedback(r)

\* The schema kinds an action checks, in the order it checks them.
RequiredKinds(action) ==
    CASE action \in {"create-service-listing", "query-service-listings"} -> <<"SERVICE_LISTING">>
      [] action = "create-booking" -> <<"BOOKING", "SERVICE_LISTING">>
      [] action \in {"update-booking-status", "get-booking-details"} -> <<"BOOKING">>
      [] action \in {"create-feedback", "resolve-feedback", "get-feedback"} -> <<"FEEDBACK">>
      [] OTHER -> <<>>

EmptyKinds(action) ==
    { RequiredKinds(action)[i] : i \in 1..Len(RequiredKinds(action)) }
        \cap { k \in Kinds : ~Truthy(SCHEMA_IDS[k]) }

FirstEmptyKind(action) ==
    LET kinds == RequiredKinds(action)
        i == CHOOSE j \in 1..Len(kinds) :
                 /\ ~Truthy(SCHEMA_IDS[kinds[j]])
                 /\ \A m \in 1..(j - 1) : Truthy(SCHEMA_IDS[kinds[m]])
    IN kinds[i]

MissingSchemaResponse(k) ==
    <<"Error: ", "Schema ID for " \o k \o " is missing. Please create the schema first.">>

\* C9 (as claimed): an action that requires a schema identifier, called
\* while that identifier is empty, answers with the missing-schema failure
\* naming that kind and performs no write or read.
C9_EmptySchemaIdReported ==
    EmptyKinds(last.action) # {} =>
        /\ \E k \in EmptyKinds(last.action) : last.response = MissingSchemaResponse(k)
        /\ last.wrote = <<>>
        /\ last.read = <<>>

\* C9 (amended): called while a required identifier is empty, the action
\* performs no write or read; if its connection step succeeded it answers
\* with the missing-schema failure naming the first required kind that is
\* empty, and otherwise with the initialization failure.
C9_EmptySchemaIdReportedOnceConnected ==
    EmptyKinds(last.action) # {} =>
        /\ last.wrote = <<>>
        /\ last.read = <<>>
        /\ last.response =
             IF last.connected
             THEN MissingSchemaResponse(FirstEmptyKind(last.action))
             ELSE <<"Error: ", "Failed to initialize SecretVault: " \o ServiceFailure>>

\* create-booking, connected, with the BOOKING identifier present and the
\* SERVICE_LISTING identifier empty.
C9_Witness ==
    /\ last.action = "create-booking"
    /\ last.connected
    /\ Truthy(SCHEMA_IDS["BOOKING"])
    /\ SCHEMA_IDS["SERVICE_LISTING"] = Str("")
    /\ last.response = MissingSchemaResponse("SERVICE_LISTING")

\* C10 (as claimed): get-booking-details answers every booking identifier
\* with the same payload: the response to one identifier is the response to
\* any other.
C10_SamePayloadForEveryId ==
    (last.action = "get-booking-details" /\ last.connected /\ Truthy(SCHEMA_IDS["BOOKING"]))
        => \A other \in GetBookingDetailsArgs :
               getBookingDetailsBody(other).response = last.response

\* The example booking with the given _id.
ExampleBooking(id) ==
    JSONStringify(<< <<"_id", Quote(id)>> >> \o MockBookingFields)

\* C10 (amended): past the connection step and the presence check,
\* get-booking-details answers with the fixed example whose _id is the
\* identifier supplied; the answer to any other identifier differs.
C10_PayloadEchoesIdentifier ==
    (last.action = "get-booking-details" /\ last.connected /\ Truthy(SCHEMA_IDS["BOOKING"]))
        => /\ last.response = <<"Booking details:\n",
                                ExampleBooking(last.args.o["booking_id"].s)>>
           /\ \A id \in RecordIds \ {last.args.o["booking_id"].s} :
                  ExampleBooking(id) # last.response[2]

\* get-booking-details answered for an identifier no record has.
C10_Witness ==
    /\ last.action = "get-booking-details"
    /\ Len(last.response) = 2
    /\ last.response[1] = "Booking details:\n"
    /\ DGet(last.args, "booking_id") = DStr("no-such-id")

ActionNames ==
    {"configure-secretvault", "create-schema", "create-service-listing",
     "query-service-listings", "create-booking", "update-booking-status",
     "get-booking-details", "create-feedback", "resolve-feedback", "get-feedback",
     "generate-uuid"}

SuccessHeads ==
    {"SecretVault configuration updated successfully",
     "Schema created successfully\nSchema ID: ",
     "Service listing created successfully\nListing ID: ",
     "No service listings found matching your criteria", "Found ",
     "Service booked successfully\nBooking ID: ",
     "Booking status updated to: ", "Booking details:\n",
     "Feedback created successfully\nFeedback ID: ",
     "Feedback resolved with status: ", "Feedback details:\n"}

Failing ==
    /\ last.action \in ActionNames \ {"generate-uuid"}
    /\ last.response[1] \notin SuccessHeads

\* The words an action's catch clause puts before an error that is not one
\* of the named kinds.
OwnPrefix(action) ==
    CASE action = "configure-secretvault" -> "Configuration error: "
      [] action = "create-schema" -> "Schema creation error: "
      [] action = "create-service-listing" -> "Error creating service listing: "
      [] action = "query-service-listings" -> "Error querying service listings: "
      [] action = "create-booking" -> "Error creating booking: "
      [] action = "update-booking-status" -> "Error updating booking status: "
      [] action = "get-booking-details" -> "Error getting booking details: "
      [] action = "create-feedback" -> "Error creating feedback: "
      [] action = "resolve-feedback" -> "Error resolving feedback: "
      [] action = "get-feedback" -> "Error getting feedback: "
      [] OTHER -> ""

\* C14 (as claimed): every failing action, whatever the kind of failure,
\* answers 'Error: <description>'.
C14_FailuresStartWithError ==
    Failing => last.response[1] = "Error: " /\ Len(last.response) = 2

\* C14 (amended): a failing action answers 'Error: <description>' when the
\* failure is one of the named kinds (here: initialization, missing schema)
\* and '<the action's own words>: <description>' when the external service
\* raised an error that is not.
C14_FailuresNamedOrOwnPrefix ==
    Failing =>
        /\ Len(last.response) = 2
        /\ IF ~last.connected
           THEN last.response = <<"Error: ", "Failed to initialize SecretVault: " \o ServiceFailure>>
           ELSE IF EmptyKinds(last.action) # {}
           THEN last.response = MissingSchemaResponse(FirstEmptyKind(last.action))
           ELSE last.response = <<OwnPrefix(last.action), ServiceFailure>>

\* Schema creation refused by the service.
C14_Witness ==
    /\ last.action = "create-schema"
    /\ last.connected
    /\ last.response = <<"Schema creation error: ", ServiceFailure>>

ConnectingActions == ActionNames \ {"generate-uuid"}

InitFailureResponse == <<"Error: ", "Failed to initialize SecretVault: " \o ServiceFailure>>

\* C15: when connection establishment fails during an action, the action
\* reports an initialization failure and the provider stays uninitialized;
\* an action that finds the provider uninitialized attempts the connection
\* (none is skipped), and an action gets past the connection step only with
\* a handle whose init() succeeded.
C15_FailedConnectionIsRetried ==
    [][ last'.action \in ConnectingActions =>
          /\ ~last'.connected =>
               /\ last'.attempted
               /\ last'.response = InitFailureResponse
               /\ ~initialized'
               /\ ~secretVaultWrapper'.ready
               /\ storage' = storage
               /\ last'.wrote = <<>> /\ last'.read = <<>>
          /\ ~initialized => last'.attempted
          /\ last'.connected => initialized' /\ secretVaultWrapper'.ready
      ]_vars

\* A connection attempt failed after an earlier connection had worked: the
\* provider holds the handle that failed and is uninitialized.
C15_Witness ==
    /\ last.action = "create-booking"
    /\ last.attempted
    /\ ~last.connected
    /\ ~initialized
    /\ secretVaultWrapper.set /\ ~secretVaultWrapper.ready
    /\ storage # {}

\* C16: configure-connection replaces the node list and the credentials,
\* no other action changes them, and every action that gets past the
\* connection step - every write, read and schema creation - uses a handle
\* established with the node list and credentials configured last.
C16_HandleBuiltFromLatestConfiguration ==
    [][ /\ last'.action = "configure-secretvault" =>
             /\ nodes' = last'.args.o["nodes"].s
             /\ credentials' = last'.args.o["credentials"].s
        /\ last'.action \in ActionNames \ {"configure-secretvault"} =>
             UNCHANGED <<nodes, credentials>>
        /\ last'.connected =>
             secretVaultWrapper' = NewWrapper(nodes', credentials', TRUE)
        /\ (last'.wrote # <<>> \/ last'.read # <<>>) => last'.connected
        /\ (last'.action = "create-schema" /\ SCHEMA_IDS' # SCHEMA_IDS) => last'.connected
      ]_vars

\* A record written through the handle of the second configuration, after
\* another record had been stored.
C16_Witness ==
    /\ last.action = "create-feedback"
    /\ Len(last.wrote) = 1
    /\ last.wrote[1] \in storage
    /\ nodes = "nodes-B"
    /\ secretVaultWrapper = NewWrapper("nodes-B", "credentials-B", TRUE)
    /\ \E r \in storage : r # last.wrote[1]

\* C17: nothing is connected after construction; the handle and the
\* initialized flag change only in an action that calls init(), which
\* generate-uuid never does; and while the provider is initialized, an
\* action other than configure-connection keeps the handle it finds and
\* does not call init().
C17_ConnectionLazyAndOnce ==
    /\ (secretVaultWrapper = NoWrapper /\ ~initialized)
    /\ [][ /\ (secretVaultWrapper' # secretVaultWrapper \/ initialized' # initialized) =>
                last'.action \in ConnectingActions /\ last'.attempted
           /\ last'.action = "generate-uuid" => ~last'.attempted
           /\ (initialized /\ secretVaultWrapper.set
                 /\ last'.action \in ConnectingActions \ {"configure-secretvault"}) =>
                /\ ~last'.attempted
                /\ last'.connected
                /\ secretVaultWrapper' = secretVaultWrapper
                /\ initialized'
         ]_vars

\* A query answered through the handle an earlier action had established.
C17_Witness ==
    /\ last.action = "query-service-listings"
    /\ last.connected
    /\ ~last.attempted
    /\ last.read # <<>>
    /\ storage # {}

Supplied(args, k) == k \in DOMAIN args.o

\* C18: the filter handed to readFromNodes holds status = 'available', and
\* holds a service_type, an availability.date and a price.amount $lte
\* constraint exactly when service_type, date and price_max are supplied,
\* whatever value the schema permits.
C18_FilterHoldsSuppliedConstraints ==
    (last.action = "query-service-listings" /\ last.read # <<>>) =>
        LET f == last.read[1].o
            a == last.args
        IN /\ "status" \in DOMAIN f /\ f["status"] = DStr("available")
           /\ ("service_type" \in DOMAIN f) <=> Supplied(a, "service_type")
           /\ ("availability.date" \in DOMAIN f) <=> Supplied(a, "date")
           /\ ("price.amount" \in DOMAIN f) <=> Supplied(a, "price_max")
           /\ Supplied(a, "service_type") => DGet(DObj(f), "service_type") = a.o["service_type"]
           /\ Supplied(a, "date") => DGet(DObj(f), "availability.date") = a.o["date"]
           /\ Supplied(a, "price_max") =>
                  DGet(DObj(f), "price.amount") = DObj("$lte" :> a.o["price_max"])

\* What does hold: status = 'available' is always there, and a constraint
\* is there exactly when its input is supplied with a truthy value.
FilterHoldsTruthyConstraints ==
    (last.action = "query-service-listings" /\ last.read # <<>>) =>
        LET f == last.read[1].o
            a == last.args
        IN /\ "status" \in DOMAIN f /\ f["status"] = DStr("available")
           /\ ("service_type" \in DOMAIN f) <=> DTruthy(DGet(a, "service_type"))
           /\ ("availability.date" \in DOMAIN f) <=> DTruthy(DGet(a, "date"))
           /\ ("price.amount" \in DOMAIN f) <=> DTruthy(DGet(a, "price_max"))

SchemaCreated ==
    /\ last.action = "create-schema"
    /\ last.response[1] = "Schema created successfully\nSchema ID: "

\* C19: after a successful create-remote-schema for kind K, the response
\* names the identifier the service assigned and that identifier is the
\* schema id of K, so that the presence check for K passes.
C19_CreatedSchemaIdStored ==
    SchemaCreated =>
        LET K == last.args.o["schemaType"].s
        IN /\ last.response[2] = "schema-new"
           /\ SCHEMA_IDS[K] = Str("schema-new")
           /\ checkSchemaId(K)

\* What does hold: the schema id of K is undefined afterwards, whatever it
\* was before, and the presence check for K fails.
CreatedSchemaIdUndefined ==
    SchemaCreated =>
        LET K == last.args.o["schemaType"].s
        IN /\ last.response[2] = "undefined"
           /\ SCHEMA_IDS[K].t = "undefined"
           /\ ~checkSchemaId(K)

CreateActions == {"create-service-listing", "create-booking", "create-feedback"}

IdOf(r) == DGet(r, "_id")

\* C20: a create action that gets past the connection step and the
\* presence checks submits exactly one record, under an identifier minted
\* for it, whatever is stored already; the identifier differs from that of
\* every record submitted before (identifiers are minted in sequence and
\* the sequence never steps back), and the record is stored when the write
\* succeeds.
C20_CreateMintsFreshId ==
    [][ /\ uuidCount' >= uuidCount
        /\ \A r \in storage : \E i \in 1..uuidCount : IdOf(r) = DStr(Uuid(i))
        /\ \A r1, r2 \in storage : IdOf(r1) = IdOf(r2) => r1 = r2
        /\ (last'.action \in CreateActions /\ last'.response[1] # "Error: ") =>
             /\ Len(last'.wrote) = 1
             /\ uuidCount' = uuidCount + 1
             /\ IdOf(last'.wrote[1]) = DStr(Uuid(uuidCount'))
             /\ \A r \in storage : IdOf(r) # IdOf(last'.wrote[1])
             /\ storage' \in {storage, storage \cup {last'.wrote[1]}}
             /\ (last'.response[1] \in SuccessHeads) => last'.wrote[1] \in storage'
      ]_vars

\* The same booking request made twice: two stored records that differ in
\* their _id only.
C20_Witness ==
    /\ last.action = "create-booking"
    /\ Len(last.wrote) = 1
    /\ last.wrote[1] \in storage
    /\ \E r \in storage :
          /\ r # last.wrote[1]
          /\ IdOf(r) # IdOf(last.wrote[1])
          /\ [r.o EXCEPT !["_id"] = IdOf(last.wrote[1])] = last.wrote[1].o

Listings(store) == { r \in store : IsListing(r) }

BookedListings(store) ==
    { l \in Listings(store) :
        \E b \in store : IsBooking(b) /\ DGet(b, "service_id") = IdOf(l) }

\* C24: create-booking, once connected with both schema identifiers
\* present, submits the booking whatever is stored (whether or not a listing
\* carries the service_id), and it leaves every stored record as it was;
\* every stored listing, booked or not, has status 'available', and a query
\* without constraints that finds listings finds all of them.
C24_BookingLeavesListingsAlone ==
    [][ /\ (last'.action = "create-booking" /\ last'.connected
              /\ EmptyKinds("create-booking") = {}) =>
             /\ Len(last'.wrote) = 1
             /\ IsBooking(last'.wrote[1])
             /\ DGet(last'.wrote[1], "service_id") = DGet(last'.args, "service_id")
             /\ storage' \in {storage, storage \cup {last'.wrote[1]}}
        /\ last'.action = "create-booking" => storage \subseteq storage'
        /\ \A l \in Listings(storage') : DGet(l, "status") = DStr("available")
        /\ (last'.action = "query-service-listings" /\ last'.args = DObj(<<>>)
              /\ last'.response[1] = "Found ") =>
             last'.response[2] = ToString(Cardinality(Listings(storage)))
      ]_vars

\* A query that finds a listing for which a booking is stored.
C24_Witness ==
    /\ last.action = "query-service-listings"
    /\ last.args = DObj(<<>>)
    /\ last.response[1] = "Found "
    /\ last.response[2] = "1"
    /\ BookedListings(storage) # {}

\* A booking stored for a service_id that no stored listing carries.
BookingOfNoListing ==
    /\ last.action = "create-booking"
    /\ Len(last.wrote) = 1
    /\ last.wrote[1] \in storage
    /\ Listings(storage) = {}

CheckingActions == { a \in ActionNames : RequiredKinds(a) # <<>> }

IsMissingSchemaResponse(response) == \E k \in Kinds : response = MissingSchemaResponse(k)

\* C25: in every action that checks a schema identifier the connection step
\* comes first: when the connection fails the action reports the
\* initialization failure, whether or not the identifier is present, and an
\* action that reports missing-schema has connected, so the provider is
\* initialized with a ready handle afterwards.
C25_ConnectionBeforePresenceCheck ==
    [][ last'.action \in CheckingActions =>
          /\ ~last'.connected => last'.response = InitFailureResponse
          /\ IsMissingSchemaResponse(last'.response) =>
               /\ last'.connected
               /\ ~initialized => last'.attempted
               /\ initialized'
               /\ secretVaultWrapper'.ready
      ]_vars

\* An action that found the provider uninitialized, connected, and then
\* failed the presence check.
C25_Witness ==
    /\ last.action = "update-booking-status"
    /\ last.response = MissingSchemaResponse("BOOKING")
    /\ last.attempted
    /\ initialized
    /\ secretVaultWrapper.ready

\* The connection failed while the identifier was empty.
InitFailureWithEmptySchemaId ==
    /\ last.action \in CheckingActions
    /\ EmptyKinds(last.action) # {}
    /\ last.response = InitFailureResponse

BookingPresent == Truthy(SCHEMA_IDS["BOOKING"])
ListingPresent == Truthy(SCHEMA_IDS["SERVICE_LISTING"])

\* C26 (as claimed): create-booking hands a booking to writeToNodes only
\* when both identifiers are present, reports missing-schema for BOOKING
\* when the BOOKING identifier is empty, and for SERVICE_LISTING when only
\* the SERVICE_LISTING identifier is empty.
C26_BookingNeedsBothSchemaIds ==
    last.action = "create-booking" =>
        /\ last.wrote # <<>> => BookingPresent /\ ListingPresent
        /\ ~BookingPresent => last.response = MissingSchemaResponse("BOOKING")
        /\ (BookingPresent /\ ~ListingPresent) =>
               last.response = MissingSchemaResponse("SERVICE_LISTING")

\* C26 (amended): the same once the connection step has succeeded; with
\* both identifiers present the booking is handed to writeToNodes, and when
\* the connection fails the initialization failure is reported whatever the
\* identifiers are.
C26_BookingNeedsBothSchemaIdsOnceConnected ==
    last.action = "create-booking" =>
        /\ last.wrote # <<>> <=> (last.connected /\ BookingPresent /\ ListingPresent)
        /\ (last.connected /\ ~BookingPresent) =>
               last.response = MissingSchemaResponse("BOOKING")
        /\ (last.connected /\ BookingPresent /\ ~ListingPresent) =>
               last.response = MissingSchemaResponse("SERVICE_LISTING")
        /\ ~last.connected => last.response = InitFailureResponse

\* create-booking, connected, with only the SERVICE_LISTING identifier
\* empty.
C26_Witness ==
    /\ last.action = "create-booking"
    /\ last.connected
    /\ BookingPresent /\ ~ListingPresent
    /\ last.response = MissingSchemaResponse("SERVICE_LISTING")
    /\ last.wrote = <<>>

\* C28: a configure-connection whose connection fails leaves the supplied
\* node list and credentials configured, the provider uninitialized and the
\* handle that failed in place; an action that finds the provider
\* uninitialized builds a new handle from the configured node list and
\* credentials instead of using the handle it finds.
C28_FailedConfigureKeepsNewParameters ==
    [][ /\ (last'.action = "configure-secretvault" /\ ~last'.connected) =>
             /\ last'.response = InitFailureResponse
             /\ nodes' = last'.args.o["nodes"].s
             /\ credentials' = last'.args.o["credentials"].s
             /\ ~initialized'
             /\ secretVaultWrapper' = NewWrapper(nodes', credentials', FALSE)
        /\ (~initialized /\ last'.action \in ConnectingActions \ {"configure-secretvault"}) =>
             /\ last'.attempted
             /\ secretVaultWrapper' = NewWrapper(nodes, credentials, last'.connected)
      ]_vars

\* A configure-connection that failed after records had been written
\* through an earlier handle.
C28_Witness ==
    /\ last.action = "configure-secretvault"
    /\ ~last.connected
    /\ storage # {}
    /\ nodes = "nodes-B" /\ credentials = "credentials-B"
    /\ ~initialized
    /\ secretVaultWrapper = NewWrapper("nodes-B", "credentials-B", FALSE)

ConfidentialKeys == {"provider_name", "provider_id", "contact_info"}

\* The listing with other values in its confidential fields.
WithConfidential(r, v) ==
    DObj([k \in DOMAIN r.o |-> IF k \in ConfidentialKeys THEN v ELSE r.o[k]])

OtherConfidentialValues == {DStr("Zoe"), DWrap(DStr("zoe@example.org"))}

\* Stores that differ from the given one in confidential fields of listings
\* only.
Variants(store) ==
    { { IF IsListing(r) THEN WithConfidential(r, v) ELSE r : r \in store } :
        v \in OtherConfidentialValues }

PlainOf(d) == IF d.t = "object" THEN DGet(d, "%allot").s ELSE d.s

ConfidentialValues(store) ==
    { PlainOf(r.o[k]) : r \in Listings(store), k \in ConfidentialKeys } \ {""}

Contains(text, part) ==
    \E i \in 1..(Len(text) - Len(part) + 1) : SubSeq(text, i, i + Len(part) - 1) = part

QueryAnswered ==
    /\ last.action = "query-service-listings"
    /\ last.read # <<>>
    /\ last.response[1] \in {"Found ", "No service listings found matching your criteria"}

\* C27: the answer of query-listings is the answer the same query gets from
\* a store that differs in provider_name, provider_id and contact_info of
\* its listings only, and no value of those fields appears in the answer.
C27_AnswerIndependentOfConfidentialFields ==
    QueryAnswered =>
        /\ \A other \in Variants(storage) :
               last.response = QueryResponse(ReadFrom(other, last.read[1], 1))
        /\ \A v \in ConfidentialValues(storage) :
               \A i \in 1..Len(last.response) : ~Contains(last.response[i], v)

\* A query that found a listing whose provider_name is stored.
C27_Witness ==
    /\ QueryAnswered
    /\ last.response[1] = "Found "
    /\ "Ana" \in ConfidentialValues(storage)
    /\ Contains(last.response[4], "Spanish")

(***************************************************************************)
(* Properties of the tools: what the schemas let through.                  *)
(***************************************************************************)
DurationOf(input) == input.o["service_details"].o["duration_minutes"].n

\* C11: a create-listing request whose service_details.duration_minutes is
\* below 15 is rejected by the schema before the record is built: the
\* method is not called, no identifier is generated and nothing is written.
C11_ShortDurationRejected ==
    [][ (request'.tool = "create-service-listing" /\ DurationOf(request'.input) < 15)
          => /\ ~request'.accepted
             /\ last' = InvalidInput
             /\ uuidCount' = uuidCount
             /\ storage' = storage
      ]_vars

\* A request with duration_minutes = 10 was turned away after a listing had
\* been stored.
C11_Witness ==
    /\ request.tool = "create-service-listing"
    /\ DurationOf(request.input) = 10
    /\ ~request.accepted
    /\ \E r \in storage : IsListing(r)

\* The keys each action's schema declares, and its parse.
DeclaredKeys(tool) ==
    CASE tool = "configure-secretvault" -> {"nodes", "credentials"}
      [] tool = "create-schema" -> {"schemaType", "title"}
      [] tool = "create-service-listing" -> ListingKeys
      [] tool = "query-service-listings" -> {"service_type", "date", "price_max"}
      [] tool = "create-booking" -> {"service_id", "customer_id", "customer_name", "meeting_link"}
      [] tool = "update-booking-status" ->
             {"booking_id", "service_status", "payment_status", "notes", "meeting_link"}
      [] tool = "get-booking-details" -> {"booking_id"}
      [] tool = "create-feedback" ->
             {"booking_id", "provider_rating", "customer_rating", "provider_feedback",
              "customer_feedback", "agent_notes"}
      [] tool = "resolve-feedback" -> {"feedback_id", "resolution_status", "resolution_notes"}
      [] tool = "get-feedback" -> {"feedback_id"}
      [] OTHER -> {}

HasUndeclaredKey == DOMAIN request.input.o \ DeclaredKeys(request.tool) # {}

\* The request without the keys its schema does not declare.
DeclaredPart == DObj(Keep(request.input.o, DOMAIN request.input.o \cap DeclaredKeys(request.tool)))

\* Whether the fields the schema declares are all as the schema wants them
\* (stated on the request itself, key by key, for the requests of the model).
DeclaredPartValid ==
    LET d == DeclaredPart.o IN
    CASE request.tool = "configure-secretvault" -> {"nodes", "credentials"} \subseteq DOMAIN d
      [] request.tool = "create-schema" ->
             "schemaType" \in DOMAIN d /\ d["schemaType"].s \in Kinds
      [] request.tool = "create-service-listing" ->
             ListingKeys \subseteq DOMAIN d /\ DurationOf(request.input) >= 15
      [] request.tool = "query-service-listings" ->
             "price_max" \in DOMAIN d => d["price_max"].t = "number"
      [] request.tool = "create-booking" ->
             {"service_id", "customer_id", "customer_name"} \subseteq DOMAIN d
      [] request.tool = "update-booking-status" ->
             /\ {"booking_id", "service_status"} \subseteq DOMAIN d
             /\ d["service_status"].s \in ServiceStatuses
      [] request.tool = "get-booking-details" -> "booking_id" \in DOMAIN d
      [] request.tool = "create-feedback" ->
             /\ "booking_id" \in DOMAIN d
             /\ "provider_rating" \in DOMAIN d => d["provider_rating"].n \in 1..5
      [] request.tool = "resolve-feedback" ->
             /\ {"feedback_id", "resolution_status"} \subseteq DOMAIN d
             /\ d["resolution_status"].s \in ResolutionStatuses
      [] request.tool = "get-feedback" ->
             "feedback_id" \in DOMAIN d /\ d["feedback_id"].t = "string"
      [] OTHER -> FALSE

\* C12 (as claimed): a request that carries a key its action's schema does
\* not declare is rejected: invalid input, and no vault interaction.
C12_UndeclaredFieldRejected ==
    (request.tool # "none" /\ HasUndeclaredKey)
        => ~request.accepted /\ last = InvalidInput

\* C12 (amended): a request whose declared fields are valid and that also
\* carries an undeclared key is accepted; the action runs on the request
\* with that key dropped.
C12_UndeclaredFieldDropped ==
    (request.tool # "none" /\ HasUndeclaredKey /\ DeclaredPartValid)
        => /\ request.accepted
           /\ last.action = request.tool
           /\ last.args = DeclaredPart
           /\ DOMAIN last.args.o \subseteq DeclaredKeys(request.tool)

\* create-booking ran on a request that carried referral_code, and handed
\* a record without it to writeToNodes.
C12_Witness ==
    /\ request.tool = "create-booking"
    /\ "referral_code" \in DOMAIN request.input.o
    /\ request.accepted
    /\ last.action = "create-booking"
    /\ Len(last.wrote) = 1
    /\ "referral_code" \notin DOMAIN last.wrote[1].o

\* What stays of the claim: a request whose declared fields are not valid
\* is rejected, with or without undeclared keys.
InvalidRequestsRejected ==
    (request.tool # "none" /\ ~DeclaredPartValid)
        => ~request.accepted /\ last = InvalidInput

(***************************************************************************)
(* The marker on its own: records and field lists drawn from bounded sets. *)
(***************************************************************************)
\* Records: a plain field that is always there, a confidential field that is
\* absent, non-empty or empty, and a nested block with an optional number.
MarkerInputs ==
    { DObj(("service_type" :> DStr("tutoring")) @@ pn @@ pr) :
        pn \in {<<>>, "provider_name" :> DStr("Ana"), "provider_name" :> DStr("")},
        pr \in {<<>>} \cup
               { "price" :> DObj(("currency" :> DStr("USD")) @@ am) :
                   am \in {<<>>, "amount" :> DNum(0), "amount" :> DNum(5)} } }

\* Field paths: top-level and 'parent.child', present or absent in the
\* records above ('constructor' is a name no record holds as its own key).
MarkerPaths ==
    { <<"provider_name">>, <<"service_type">>, <<"price">>, <<"notes">>,
      <<"constructor">>, <<"price", "amount">>, <<"price", "tax">>,
      <<"contact", "email">>, <<"service_type", "constructor">> }

FieldLists == UNION { [1..n -> MarkerPaths] : n \in 0..MaxFields }

\* The provider's variables while only the marker runs.
InitMarker ==
    /\ ProviderIdle
    /\ ScriptIdle
    /\ \E d \in MarkerInputs :
         LET r == Load(<<>>, d) IN
         /\ mHeap = r.heap
         /\ mHeap0 = r.heap
         /\ mInput = r.val
         /\ mArg = r.val
         /\ mArgHeap = r.heap
         /\ mRet = r.val
    /\ mFields = <<>>
    /\ mFirstFields = <<>>
    /\ mThrew = FALSE
    /\ mCalls = 0

\* Call prepareDataForEncryption: first on the input record, then on what
\* the previous call returned.
Mark(fields) ==
    /\ mCalls < MaxCalls
    /\ ~mThrew
    /\ LET r == prepareDataForEncryption(mHeap, mRet, fields) IN
       /\ mArg' = mRet
       /\ mArgHeap' = mHeap
       /\ mHeap' = r.heap
       /\ mRet' = r.ret
       /\ mThrew' = r.threw
    /\ mFields' = fields
    /\ mFirstFields' = IF mCalls = 0 THEN fields ELSE mFirstFields
    /\ mCalls' = mCalls + 1
    /\ UNCHANGED <<mInput, mHeap0, providerVars, scriptVars>>

NextMarker == \E fields \in FieldLists : Mark(fields)

SpecMarker == InitMarker /\ [][NextMarker]_vars

\* ---- vocabulary of the marker's properties
\* The record the latest call was given, as it was on entry, and as it is now.
ArgOnEntry == Deep(mArgHeap, mArg)
ArgNow == Deep(mHeap, mArg)
Returned == Deep(mHeap, mRet)
Original == Deep(mHeap0, mInput)

\* A path names an own key of the record (of the parent object, if nested).
PathPresent(d, path) ==
    IF Len(path) = 1
    THEN path[1] \in DOMAIN d.o
    ELSE /\ path[1] \in DOMAIN d.o
         /\ d.o[path[1]].t = "object"
         /\ path[2] \in DOMAIN d.o[path[1]].o

ValueAt(d, path) ==
    IF Len(path) = 1 THEN d.o[path[1]] ELSE d.o[path[1]].o[path[2]]

\* The record d with the value at a present path put in the one-key wrapper.
WrapAt(d, path) ==
    IF Len(path) = 1
    THEN DObj((path[1] :> DWrap(d.o[path[1]])) @@ d.o)
    ELSE DObj((path[1] :> DObj((path[2] :> DWrap(d.o[path[1]].o[path[2]]))
                               @@ d.o[path[1]].o)) @@ d.o)

RECURSIVE WrapAll(_, _, _)
WrapAll(d, fields, i) ==
    IF i > Len(fields) THEN d ELSE WrapAll(WrapAt(d, fields[i]), fields, i + 1)

\* No path twice, and no path below another path of the list.
NonOverlapping(fields) ==
    \A i, j \in 1..Len(fields) : i # j => fields[i][1] # fields[j][1]

AllPresent(d, fields) == \A i \in 1..Len(fields) : PathPresent(d, fields[i])
AllAbsent(d, fields) == \A i \in 1..Len(fields) : ~PathPresent(d, fields[i])
AllTruthyAt(d, fields) ==
    \A i \in 1..Len(fields) :
        LET v == ValueAt(d, fields[i]) IN
        Truthy([t |-> v.t, s |-> v.s, n |-> v.n])

\* C1 (as claimed): whatever value each present field holds, exactly the
\* listed present paths hold the wrapper {'%allot': original value} in the
\* returned record and every other field equals the input's.
C1_PresentPathsWrapped ==
    (mCalls = 1 /\ NonOverlapping(mFields) /\ AllPresent(ArgOnEntry, mFields))
        => (~mThrew /\ Returned = WrapAll(ArgOnEntry, mFields, 1))

\* What the code does keep: present paths holding truthy values are wrapped.
MarkerWrapsTruthyPaths ==
    (mCalls = 1 /\ NonOverlapping(mFields) /\ AllPresent(ArgOnEntry, mFields)
       /\ AllTruthyAt(ArgOnEntry, mFields))
        => (~mThrew /\ Returned = WrapAll(ArgOnEntry, mFields, 1))

\* C3 (as claimed): no side effects - after the call the input record,
\* nested parent objects included, is what it was on entry.
C3_InputUnchanged ==
    mCalls >= 1 => ArgNow = ArgOnEntry

\* What the code does keep: the input's own top-level fields are untouched
\* when no nested path is listed.
MarkerTopLevelIsPure ==
    (mCalls >= 1 /\ \A i \in 1..Len(mFields) : Len(mFields[i]) = 1)
        => ArgNow = ArgOnEntry

\* C4 (as claimed): for field paths absent from the record no key is
\* inserted and no error is raised; the returned record has the key set of
\* the input.
C4_AbsentPathsIgnored ==
    (mCalls = 1 /\ AllAbsent(ArgOnEntry, mFields))
        => /\ ~mThrew
           /\ AllAbsent(Returned, mFields)
           /\ DOMAIN Returned.o = DOMAIN ArgOnEntry.o

\* What the code does keep: absent paths that name nothing inherited from
\* Object.prototype leave the record as it was.
MarkerIgnoresAbsentOwnNames ==
    (mCalls = 1 /\ AllAbsent(ArgOnEntry, mFields)
       /\ \A i \in 1..Len(mFields) :
            mFields[i][Len(mFields[i])] \notin ObjectPrototypeKeys)
        => (~mThrew /\ Returned = ArgOnEntry)

\* C5 (as claimed): applying the marker twice with the same present path
\* wraps the wrapper: the path then holds {'%allot': {'%allot': v}}.
C5_SecondCallWrapsWrapper ==
    (mCalls = 2 /\ Len(mFields) = 1 /\ mFields = mFirstFields
       /\ PathPresent(Original, mFields[1]))
        => /\ ~mThrew
           /\ PathPresent(Returned, mFields[1])
           /\ ValueAt(Returned, mFields[1]) = DWrap(DWrap(ValueAt(Original, mFields[1])))

\* What the code does keep: a present path holding a truthy value is
\* double-wrapped by the second application.
MarkerDoubleWrapsTruthy ==
    (mCalls = 2 /\ Len(mFields) = 1 /\ mFields = mFirstFields
       /\ PathPresent(Original, mFields[1])
       /\ AllTruthyAt(Original, mFields))
        => /\ ~mThrew
           /\ PathPresent(Returned, mFields[1])
           /\ ValueAt(Returned, mFields[1]) = DWrap(DWrap(ValueAt(Original, mFields[1])))

====
